---------------------------- MODULE Spec2Model ----------------------------
(***************************************************************************)
(* French roulette emulator and table-driven betting strategy              *)
(* (french_roulette_strategy.py).                                          *)
(*                                                                         *)
(* Money is counted in mills (1/1000 of a currency unit): 0.20 is 200,     *)
(* 1.00 is 1000.  The source's two-decimal rounding, round(x, 2), is the   *)
(* rounding of a mill amount to the nearest whole cent (a multiple of 10). *)
(*                                                                         *)
(* The module holds one state machine per component, over its own          *)
(* variables; a specification runs one component and leaves the others     *)
(* idle:                                                                   *)
(*   Spec        the wheel (FrenchRouletteEmulator: spin, get_color)       *)
(*   SpecPayout  calculate_payout applied to bets and outcomes             *)
(*   SpecBet     get_bet_increase / get_bet_decrease on bet magnitudes     *)
(*   SpecPair    get_bet_increase on two magnitudes of the table           *)
(*   SpecWalk    sequences of losses and wins from a bet on the grid       *)
(*   SpecRun     one run of run_simulation                                 *)
(*   SpecRunLive one run followed to its end, in small configurations      *)
(*   SpecRunDeep one run of SpecRun's configurations, without the history  *)
(*               list, for more spins                                      *)
(*   SpecStreak  count_streaks of monte_carlo.py on sequences of outcomes  *)
(*   SpecEstimate  run_simulation of monte_carlo.py: trials and estimate   *)
(*   SpecSeed    two emulators in random mode and the generator they share *)
(*   SpecColorStreak  get_number_of_streak_color on a history              *)
(*   SpecSwitch  get_next_color_bet applied repeatedly to the same counts  *)
(***************************************************************************)
EXTENDS Integers, Sequences, FiniteSets

VARIABLES
    \* FrenchRouletteEmulator instance
    random_numbers,   \* self.random_numbers: the replay sequence (<<>>: random mode)
    history,          \* self.history
    spin_count,       \* self.spin_count
    random_index,     \* self.random_index
    red_count,        \* self.red_count
    black_count,      \* self.black_count
    zero_count,       \* self.zero_count
    result,           \* the value the last call of spin returned (-1: no call yet)
    \* get_color call
    number,           \* argument of the last get_color call (-1: no call yet)
    color,            \* its return value ("none": no call yet)
    \* calculate_payout call
    bet_type,         \* argument bet_type ("none": no call yet)
    bet_amount,       \* argument bet_amount, in mills
    bet_numbers,      \* argument bet_numbers
    pay_result,       \* argument result
    la_partage,       \* argument la_partage
    pay_called,       \* whether the call has been made
    payout,           \* the returned net profit/loss, in mills
    pay_error,        \* "" or the exception the call raised
    \* bet-size step functions
    current_bet,      \* argument current_bet, in mills
    bet_op,           \* "none", "increase" (get_bet_increase) or "decrease" (get_bet_decrease)
    new_bet,          \* the returned bet, in mills (0 when the call raised)
    bet_error,        \* "" or "ValueError"
    \* two magnitudes compared under get_bet_increase
    second_bet,       \* the larger magnitude, in mills
    second_new_bet,   \* get_bet_increase of it
    \* a sequence of losses and wins on the bet ladder
    start_bet,        \* the bet the sequence started from
    loss_steps,       \* losses so far (get_bet_increase applied)
    win_steps,        \* wins so far (get_bet_decrease applied)
    \* run_simulation: the configuration of the runs
    STARTING_BANKROLL,
    STARTING_BET,
    SPINS_PER_SIMULATION,
    MIN_BET,
    MAX_BET,
    \* run_simulation: one run (one iteration of the for loop over sim_num)
    sim_num,              \* index of the run
    run_numbers,          \* the local random_numbers: the run's list of random numbers
    first_number,         \* random_numbers[0] of that list
    pc,                   \* "idle", "loop" (top of the while loop), "stopped"
                          \* (left by break), "done" (recorded), "raised"
    bankroll,             \* in mills: the sum of the starting bankroll and the profits
    float_excess,         \* bankroll is a binary float, summed with rounding: the
                          \* sign of its rounding error (float minus exact amount)
                          \* where a comparison of the code depends on it, else 0
    current_bet_amount,
    new_bet_amount,       \* 0 until its first assignment
    spins_completed,
    stop_reason,          \* "" is None
    first_time,
    win_count,
    loss_count,
    bets,                 \* the list of bets of the next round
    spin_index,           \* the local variable spin, the loop's spin index
    profit,               \* profit of the last round (0 before the first)
    run_error,            \* "" or the exception that left run_simulation
    \* run_simulation: the accumulators shared by the runs
    bankruptcies,
    max_bet_reached,
    min_bet_reached,
    completed_all_spins,
    sim_switch_track,
    sim_win_track,
    results,
    \* monte_carlo.py: count_streaks call
    trial_spins,          \* argument spins: a sequence of "R", "B", "G"
    streak_length,        \* argument streak_length
    count,                \* the returned count (-1: no call yet)
    \* monte_carlo.py: run_simulation (spins and streak_length as above)
    num_simulations,      \* argument num_simulations
    num_spins,            \* argument num_spins
    mc_pc,                \* "idle", "trials" (the for loop), "returned", "raised"
    trial,                \* trials run so far
    streak_count,         \* streak_count of the last trial (-1: none yet)
    at_least_one,
    at_least_two,
    at_least_three,
    exactly_one,
    exactly_two,
    exactly_three,
    four_or_more,
    estimate,             \* the returned dictionary of floats
    \* FrenchRouletteEmulator: the colour ratios
    red_black_ratio,      \* value of the last get_red_black_ratio() (NoRatio: no call yet)
    black_red_ratio,      \* value of the last get_black_red_ratio()
    \* the generator of the random module and two emulators in random mode
    generator,            \* the state of the module-level generator of random
    emulators,            \* emulator -> [made, seeded, seed, history]
    \* FrenchRouletteEmulator.get_number_of_streak_color
    streak_color,         \* the color argument of the call (NoColor: no call yet)
    streak_number,        \* the value returned (-1: no call yet)
    \* get_next_color_bet applied to the counts of a wheel
    switch_spins,         \* the argument spins
    switch_reds,          \* roulette.red_count
    switch_blacks,        \* roulette.black_count
    switch_bets           \* the bet tuple given, and the tuples returned so far

wheelVars == <<random_numbers, history, spin_count, random_index,
               red_count, black_count, zero_count, result>>
colorVars == <<number, color>>
payVars == <<bet_type, bet_amount, bet_numbers, pay_result, la_partage,
             pay_called, payout, pay_error>>
betVars == <<current_bet, bet_op, new_bet, bet_error>>
pairVars == <<second_bet, second_new_bet>>
walkVars == <<start_bet, loss_steps, win_steps>>
\* the variables of the components added to the wheel, the payout calculator
\* and the step functions
configVars == <<STARTING_BANKROLL, STARTING_BET, SPINS_PER_SIMULATION, MIN_BET, MAX_BET>>
loopVars == <<sim_num, run_numbers, first_number, pc, bankroll, float_excess, current_bet_amount, new_bet_amount,
              spins_completed, stop_reason, first_time, win_count, loss_count,
              bets, spin_index, profit, run_error>>
trackVars == <<bankruptcies, max_bet_reached, min_bet_reached, completed_all_spins,
               sim_switch_track, sim_win_track, results>>
runVars == <<configVars, loopVars, trackVars>>
streakVars == <<trial_spins, streak_length, count>>
\* the components beside the roulette emulator and its strategy
bucketVars == <<at_least_one, at_least_two, at_least_three,
                exactly_one, exactly_two, exactly_three, four_or_more>>
estimateVars == <<num_simulations, num_spins, mc_pc, trial, streak_count, bucketVars, estimate>>
ratioVars == <<red_black_ratio, black_red_ratio>>
seedVars == <<generator, emulators>>
colorStreakVars == <<streak_color, streak_number>>
switchVars == <<switch_spins, switch_reds, switch_blacks, switch_bets>>
sideVars == <<streakVars, estimateVars, ratioVars, seedVars, colorStreakVars, switchVars>>
restVars == <<pairVars, walkVars, runVars, sideVars>>
vars == <<wheelVars, colorVars, payVars, betVars, restVars>>

---------------------------------------------------------------------------
(* Bounds of the model *)

\* longest replay sequence handed to the emulator
MaxSeqLen == 3
\* most spins of one emulator in replay mode (more than two full cycles)
MaxSpins == 7
\* most spins of one emulator in random mode (each draws from all 37 numbers)
MaxRandomSpins == 2
\* largest bet magnitude, in mills, handed to the step functions (above the table)
MaxBetInput == 45000
\* how far below zero, in mills, the bet magnitudes handed to them reach
BelowZeroInput == 1000
\* most losses and wins of one sequence on the bet ladder
MaxWalkSteps == 6
\* most spins of one run of the simulation (the 12-spin thresholds are reached)
MaxRunSpins == 12
\* most zero outcomes among the spins of one run
MaxZeros == 1

\* spins of a run in SpecRunLive
MaxLiveSpins == 120

\* spins of a run in SpecRunDeep
MaxDeepSpins == 15
\* longest sequence of outcomes handed to count_streaks
MaxTrialSpins == 7
\* largest streak length handed to it
MaxStreakLength == 3
\* most trials of one run_simulation of monte_carlo.py
MaxTrials == 3
\* most spins of one of its trials (4 streaks of length 1 fit)
MaxEstimateSpins == 4

\* values the replay sequences are built from
SeqValues == {0, 1, 2, 36}

RECURSIVE SeqsUpTo(_)
SeqsUpTo(n) ==
    IF n = 0 THEN {<<>>}
    ELSE LET shorter == SeqsUpTo(n - 1)
         IN  shorter \cup {Append(s, v) : s \in {t \in shorter : Len(t) = n - 1}, v \in SeqValues}

\* the non-empty replay sequences of the model
ReplaySequences == SeqsUpTo(MaxSeqLen) \ {<<>>}

---------------------------------------------------------------------------
(* The wheel: FrenchRouletteEmulator *)

NUMBERS == 0..36

RED_NUMBERS == {1, 3, 5, 7, 9, 12, 14, 16, 18, 19, 21, 23, 25, 27, 30, 32, 34, 36}

BLACK_NUMBERS == {2, 4, 6, 8, 10, 11, 13, 15, 17, 20, 22, 24, 26, 28, 29, 31, 33, 35}

\* __init__(seed, random_numbers): the emulator after construction
EmulatorInit(numbers) ==
    /\ history = <<>>
    /\ red_count = 0
    /\ black_count = 0
    /\ zero_count = 0
    /\ random_numbers = numbers
    /\ random_index = 0
    /\ spin_count = 1
    /\ result = -1

\* a spin that puts its outcome at the front of history
spin_prepends ==
    /\ Len(history) < MaxSpins
    /\ \/ /\ Len(random_numbers) > 0
          /\ random_index' = spin_count % Len(random_numbers)
          /\ result' = random_numbers[random_index' + 1]
       \/ /\ Len(random_numbers) = 0
          /\ Len(history) < MaxRandomSpins
          /\ result' \in NUMBERS
          /\ UNCHANGED random_index
    /\ history' = <<result'>> \o history
    /\ spin_count' = spin_count + 1
    /\ UNCHANGED <<random_numbers, red_count, black_count, zero_count>>
    /\ UNCHANGED <<colorVars, payVars, betVars, restVars>>

\* spin(): replay mode reads random_numbers at spin_count % len, random mode
\* draws any wheel number; then the outcome is appended and the counter bumped
spin ==
    /\ Len(history) < MaxSpins
    /\ \/ /\ Len(random_numbers) > 0
          /\ random_index' = spin_count % Len(random_numbers)
          /\ result' = random_numbers[random_index' + 1]
       \/ /\ Len(random_numbers) = 0
          /\ Len(history) < MaxRandomSpins
          /\ result' \in NUMBERS
          /\ UNCHANGED random_index
    /\ history' = Append(history, result')
    /\ spin_count' = spin_count + 1
    /\ UNCHANGED <<random_numbers, red_count, black_count, zero_count>>
    /\ UNCHANGED <<colorVars, payVars, betVars, restVars>>

\* get_spin_count()
get_spin_count == spin_count

\* get_color with the zero test left out
get_color_without_zero(n) ==
    IF n \in RED_NUMBERS THEN "red" ELSE "black"

\* get_color(number): BetType.GREEN for 0, RED for a red number, else BLACK
get_color(n) ==
    IF n = 0 THEN "green"
    ELSE IF n \in RED_NUMBERS THEN "red"
    ELSE "black"

\* color = roulette.get_color(result), the classification of a spin's outcome
GetColor ==
    /\ result \in NUMBERS
    /\ number' = result
    /\ color' = get_color(result)
    /\ UNCHANGED <<wheelVars, payVars, betVars, restVars>>

---------------------------------------------------------------------------
(* The payout calculator *)

\* class BetType: the values of the enumeration
InsideBets == {"straight", "split", "street", "corner", "line"}

BetTypes ==
    InsideBets \cup
    {"red", "black", "even", "odd", "low", "high",
     "dozen_1", "dozen_2", "dozen_3", "column_1", "column_2", "column_3", "green"}

\* check_bet in which column 3 forgets that zero is no column number
check_bet_zero_in_column(t, nums, r) ==
    CASE t \in InsideBets -> r \in nums
      [] t = "red" -> r \in RED_NUMBERS
      [] t = "black" -> r \in BLACK_NUMBERS
      [] t = "even" -> r # 0 /\ r % 2 = 0
      [] t = "odd" -> r # 0 /\ r % 2 = 1
      [] t = "low" -> 1 <= r /\ r <= 18
      [] t = "high" -> 19 <= r /\ r <= 36
      [] t = "dozen_1" -> 1 <= r /\ r <= 12
      [] t = "dozen_2" -> 13 <= r /\ r <= 24
      [] t = "dozen_3" -> 25 <= r /\ r <= 36
      [] t = "column_1" -> r % 3 = 1 /\ r # 0
      [] t = "column_2" -> r % 3 = 2 /\ r # 0
      [] t = "column_3" -> r % 3 = 0
      [] OTHER -> FALSE

\* check_bet(bet_type, bet_numbers, result)
check_bet(t, nums, r) ==
    CASE t = "straight" -> r \in nums
      [] t = "split" -> r \in nums
      [] t = "street" -> r \in nums
      [] t = "corner" -> r \in nums
      [] t = "line" -> r \in nums
      [] t = "red" -> r \in RED_NUMBERS
      [] t = "black" -> r \in BLACK_NUMBERS
      [] t = "even" -> r # 0 /\ r % 2 = 0
      [] t = "odd" -> r # 0 /\ r % 2 = 1
      [] t = "low" -> 1 <= r /\ r <= 18
      [] t = "high" -> 19 <= r /\ r <= 36
      [] t = "dozen_1" -> 1 <= r /\ r <= 12
      [] t = "dozen_2" -> 13 <= r /\ r <= 24
      [] t = "dozen_3" -> 25 <= r /\ r <= 36
      [] t = "column_1" -> r % 3 = 1 /\ r # 0
      [] t = "column_2" -> r % 3 = 2 /\ r # 0
      [] t = "column_3" -> r % 3 = 0 /\ r # 0
      [] OTHER -> FALSE

\* the payouts dictionary of get_payout_multiplier
payouts ==
    [t \in BetTypes \ {"green"} |->
        CASE t = "straight" -> 36
          [] t = "split" -> 18
          [] t = "street" -> 12
          [] t = "corner" -> 9
          [] t = "line" -> 6
          [] t \in {"red", "black", "even", "odd", "low", "high"} -> 2
          [] OTHER -> 3]

\* get_payout_multiplier(bet_type): payouts[bet_type], a KeyError for a type
\* the dictionary does not hold
get_payout_multiplier(t) ==
    IF t \in DOMAIN payouts
    THEN [error |-> "", value |-> payouts[t]]
    ELSE [error |-> "KeyError", value |-> 0]

\* is_even_money_bet that leaves HIGH out of the list
is_even_money_bet_without_high(t) ==
    t \in {"red", "black", "even", "odd", "low"}

\* is_even_money_bet(bet_type)
is_even_money_bet(t) ==
    t \in {"red", "black", "even", "odd", "low", "high"}

\* calculate_payout without the La Partage rule: a zero loses the whole bet
calculate_payout_without_la_partage(t, amount, nums, r, partage) ==
    IF check_bet(t, nums, r)
    THEN LET multiplier == get_payout_multiplier(t)
         IN  IF multiplier.error # ""
             THEN [error |-> multiplier.error, value |-> 0]
             ELSE [error |-> "", value |-> amount * (multiplier.value - 1)]
    ELSE [error |-> "", value |-> 0 - amount]

\* calculate_payout(bet_type, bet_amount, bet_numbers, result, la_partage):
\* the net profit or loss, or the exception of get_payout_multiplier.
\* -bet_amount / 2 is exact in mills for a stake of whole cents.
calculate_payout(t, amount, nums, r, partage) ==
    IF r = 0 /\ is_even_money_bet(t) /\ partage
    THEN [error |-> "", value |-> (0 - amount) \div 2]
    ELSE IF check_bet(t, nums, r)
         THEN LET multiplier == get_payout_multiplier(t)
              IN  IF multiplier.error # ""
                  THEN [error |-> multiplier.error, value |-> 0]
                  ELSE [error |-> "", value |-> amount * (multiplier.value - 1)]
         ELSE [error |-> "", value |-> 0 - amount]

\* stakes, in mills (whole cents): 0.01, 0.20, 1.20, 8.00, 100.00
StakeChoices == {10, 200, 1200, 8000, 100000}

\* target numbers of the bets placed: none (outside bets), straight 0,
\* straight 17, split 0/1, a street, a corner, a line
BetNumberChoices ==
    {{}, {0}, {17}, {0, 1}, {1, 2, 3}, {1, 2, 4, 5}, {1, 2, 3, 4, 5, 6}}

\* the arguments of a call of calculate_payout: any bet and any outcome
PayoutArguments ==
    /\ bet_type \in BetTypes
    /\ bet_amount \in StakeChoices
    /\ bet_numbers \in BetNumberChoices
    /\ pay_result \in NUMBERS
    /\ la_partage \in BOOLEAN

\* payout = calculate_payout(bet_type, bet_amount, bet_numbers, result, la_partage)
CalculatePayout ==
    /\ ~pay_called
    /\ bet_type # "none"
    /\ LET got == calculate_payout(bet_type, bet_amount, bet_numbers, pay_result, la_partage)
       IN  payout' = got.value /\ pay_error' = got.error
    /\ pay_called' = TRUE
    /\ UNCHANGED <<bet_type, bet_amount, bet_numbers, pay_result, la_partage>>
    /\ UNCHANGED <<wheelVars, colorVars, betVars, restVars>>

---------------------------------------------------------------------------
(* The bet-size step functions *)

\* ADJUSTMENT_TABLE with the steps of its first two ranges exchanged
ADJUSTMENT_TABLE_steps_exchanged ==
    << <<200, 900, 200>>,
       <<1000, 1800, 100>>,
       <<2000, 3600, 400>>,
       <<4000, 7200, 800>>,
       <<8000, 12800, 1200>>,
       <<14000, 22000, 2000>>,
       <<24000, 44000, 4000>> >>

\* ADJUSTMENT_TABLE: rows of <<min, max, adjustment>>, in mills
ADJUSTMENT_TABLE ==
    << <<200, 900, 100>>,
       <<1000, 1800, 200>>,
       <<2000, 3600, 400>>,
       <<4000, 7200, 800>>,
       <<8000, 12800, 1200>>,
       <<14000, 22000, 2000>>,
       <<24000, 44000, 4000>> >>

\* round(x, 2) of a mill amount: the nearest whole cent.  An amount that ends
\* in exactly half a cent is no input of the model (BetInputs): there the
\* source rounds the binary float, which lies on either side of the tie.
round2(x) ==
    LET r == x % 10
    IN  IF r < 5 THEN x - r
        ELSE IF r > 5 THEN x - r + 10
        ELSE IF ((x - r) \div 10) % 2 = 0 THEN x - r ELSE x - r + 10

\* the for loop of get_next_bet_adjustment from row i on
RECURSIVE adjustment_from(_, _)
adjustment_from(i, current) ==
    IF i > Len(ADJUSTMENT_TABLE)
    THEN [error |-> "ValueError", value |-> 0]
    ELSE LET min_bet == ADJUSTMENT_TABLE[i][1]
             max_bet == ADJUSTMENT_TABLE[i][2]
             adjustment == ADJUSTMENT_TABLE[i][3]
         IN  IF min_bet <= current /\ current <= max_bet
             THEN [error |-> "", value |-> adjustment]
             ELSE adjustment_from(i + 1, current)

\* get_next_bet_adjustment with the upper bound of a range left out of it
get_next_bet_adjustment_open_max(current) ==
    LET hits == {i \in 1..Len(ADJUSTMENT_TABLE) :
                    ADJUSTMENT_TABLE[i][1] <= current /\ current < ADJUSTMENT_TABLE[i][2]}
    IN  IF hits = {}
        THEN [error |-> "ValueError", value |-> 0]
        ELSE [error |-> "", value |-> ADJUSTMENT_TABLE[CHOOSE i \in hits : TRUE][3]]

\* get_next_bet_adjustment(current_bet): the adjustment of the first range
\* that holds current_bet, a ValueError when none does
get_next_bet_adjustment(current) == adjustment_from(1, current)

\* get_bet_increase that validates its result against the table
get_bet_increase_validating_result(current) ==
    LET adjustment == get_next_bet_adjustment(current)
    IN  IF adjustment.error # ""
        THEN [error |-> adjustment.error, value |-> 0]
        ELSE IF get_next_bet_adjustment(round2(current + adjustment.value)).error # ""
             THEN [error |-> "ValueError", value |-> 0]
             ELSE [error |-> "", value |-> round2(current + adjustment.value)]

\* get_bet_increase(current_bet)
get_bet_increase(current) ==
    LET adjustment == get_next_bet_adjustment(current)
    IN  IF adjustment.error # ""
        THEN [error |-> adjustment.error, value |-> 0]
        ELSE [error |-> "", value |-> round2(current + adjustment.value)]

\* the for loop of get_bet_decrease from row i on: no break, the last range
\* that matches decides prev_adjustment
RECURSIVE decrease_scan(_, _, _)
decrease_scan(i, current, prev_adjustment) ==
    IF i > Len(ADJUSTMENT_TABLE)
    THEN prev_adjustment
    ELSE LET min_bet == ADJUSTMENT_TABLE[i][1]
             max_bet == ADJUSTMENT_TABLE[i][2]
             adjustment == ADJUSTMENT_TABLE[i][3]
         IN  decrease_scan(i + 1, current,
                 IF min_bet = current
                 THEN (IF i > 1 THEN ADJUSTMENT_TABLE[i - 1][3] ELSE adjustment)
                 ELSE IF min_bet < current /\ current <= max_bet
                      THEN ADJUSTMENT_TABLE[i][3]
                      ELSE prev_adjustment)

\* get_bet_decrease that takes the range's own adjustment at its lower bound too
get_bet_decrease_own_step(current) ==
    LET adjustment == get_next_bet_adjustment(current)
    IN  IF adjustment.error # ""
        THEN [error |-> adjustment.error, value |-> 0]
        ELSE [error |-> "", value |-> round2(current - adjustment.value)]

\* get_bet_decrease without the raise for a bet that no range matched
get_bet_decrease_without_raise(current) ==
    [error |-> "", value |-> round2(current - decrease_scan(1, current, 0))]

\* get_bet_decrease(current_bet)
get_bet_decrease(current) ==
    LET prev_adjustment == decrease_scan(1, current, 0)
    IN  IF prev_adjustment = 0
        THEN [error |-> "ValueError", value |-> 0]
        ELSE [error |-> "", value |-> round2(current - prev_adjustment)]

\* the bet magnitudes handed to the step functions: every mill amount from
\* below zero to above the table that does not end in exactly half a cent
BetInputs == {x \in (0 - BelowZeroInput)..MaxBetInput : x % 10 # 5}

\* new_bet = get_bet_increase(current_bet)
BetIncrease ==
    /\ bet_op = "none"
    /\ LET got == get_bet_increase(current_bet)
       IN  new_bet' = got.value /\ bet_error' = got.error
    /\ bet_op' = "increase"
    /\ UNCHANGED <<current_bet, wheelVars, colorVars, payVars, restVars>>

\* new_bet = get_bet_decrease(current_bet)
BetDecrease ==
    /\ bet_op = "none"
    /\ LET got == get_bet_decrease(current_bet)
       IN  new_bet' = got.value /\ bet_error' = got.error
    /\ bet_op' = "decrease"
    /\ UNCHANGED <<current_bet, wheelVars, colorVars, payVars, restVars>>

\* current_bet = new_bet: the returned bet is the next call's argument
BetStep ==
    /\ bet_op # "none"
    /\ bet_error = ""
    /\ current_bet' = new_bet
    /\ bet_op' = "none"
    /\ new_bet' = 0
    /\ UNCHANGED <<bet_error, wheelVars, colorVars, payVars, restVars>>

---------------------------------------------------------------------------
(* Two magnitudes under get_bet_increase, and sequences of losses and wins *)

\* min_bet <= current_bet <= max_bet for some range of the table
InTable(current) == get_next_bet_adjustment(current).error = ""

\* the lower and upper bounds of the ranges
RangeBounds ==
    {ADJUSTMENT_TABLE[i][1] : i \in 1..Len(ADJUSTMENT_TABLE)} \cup
    {ADJUSTMENT_TABLE[i][2] : i \in 1..Len(ADJUSTMENT_TABLE)}

\* the magnitudes a magnitude x is compared with: one mill and one cent above
\* it, and every bound of a range above it
LargerBets(x) ==
    {y \in {x + 1, x + 10} \cup RangeBounds : y > x /\ y \in BetInputs /\ InTable(y)}

\* get_bet_increase applied to two magnitudes of the table
IncreaseBoth ==
    /\ bet_op = "none"
    /\ LET got == get_bet_increase(current_bet)
       IN  new_bet' = got.value /\ bet_error' = got.error
    /\ second_new_bet' = get_bet_increase(second_bet).value
    /\ bet_op' = "increase"
    /\ UNCHANGED <<current_bet, second_bet, walkVars, runVars, sideVars, wheelVars, colorVars, payVars>>

\* the grid of the table: a range's minimum plus whole steps, up to its maximum
GridPoints ==
    UNION {{ADJUSTMENT_TABLE[i][1] + k * ADJUSTMENT_TABLE[i][3] :
                k \in 0..((ADJUSTMENT_TABLE[i][2] - ADJUSTMENT_TABLE[i][1])
                            \div ADJUSTMENT_TABLE[i][3])} :
           i \in 1..Len(ADJUSTMENT_TABLE)}

\* a loss: current_bet = get_bet_increase(current_bet), while it stays in the table
WalkLoss ==
    /\ loss_steps + win_steps < MaxWalkSteps
    /\ LET got == get_bet_increase(current_bet)
       IN  /\ got.error = ""
           /\ InTable(got.value)
           /\ current_bet' = got.value
           /\ new_bet' = got.value
    /\ bet_op' = "increase"
    /\ loss_steps' = loss_steps + 1
    /\ UNCHANGED <<bet_error, start_bet, win_steps, pairVars, runVars, sideVars, wheelVars, colorVars, payVars>>

\* a win: current_bet = get_bet_decrease(current_bet), while it stays in the table
WalkWin ==
    /\ loss_steps + win_steps < MaxWalkSteps
    /\ LET got == get_bet_decrease(current_bet)
       IN  /\ got.error = ""
           /\ InTable(got.value)
           /\ current_bet' = got.value
           /\ new_bet' = got.value
    /\ bet_op' = "decrease"
    /\ win_steps' = win_steps + 1
    /\ UNCHANGED <<bet_error, start_bet, loss_steps, pairVars, runVars, sideVars, wheelVars, colorVars, payVars>>

---------------------------------------------------------------------------
(* run_simulation: one run of the betting strategy *)

\* SWITCH_RATIO (1.5), in tenths
SWITCH_RATIO_TENTHS == 15

\* the configurations of a run: the source's constants, and configurations
\* with a bankroll below the starting bet, with a short spin budget (and a
\* high starting bet, or a low maximum off the grid of the table), and with a
\* starting bet one step above the minimum, and with a starting bet in the
\* gap of the adjustment table between 0.90 and 1.00
Configurations ==
    { [bankroll |-> 1000000, start |-> 1200, spins |-> 120, min |-> 200, max |-> 8000],
      [bankroll |-> 1000,    start |-> 1200, spins |-> 120, min |-> 200, max |-> 8000],
      [bankroll |-> 1000000, start |-> 7200, spins |-> 2,   min |-> 200, max |-> 8000],
      [bankroll |-> 1000000, start |-> 1200, spins |-> 2,   min |-> 200, max |-> 1500],
      [bankroll |-> 1000000, start |-> 300,  spins |-> 120, min |-> 200, max |-> 500],
      [bankroll |-> 1000000, start |-> 950,  spins |-> 120, min |-> 200, max |-> 8000] }

\* the configurations of the runs that are followed to their end: small
\* ranges between MIN_BET and MAX_BET
LiveConfigurations ==
    { [bankroll |-> 1000000, start |-> 1200, spins |-> 2,  min |-> 200, max |-> 1500],
      [bankroll |-> 1000000, start |-> 300,  spins |-> 12, min |-> 200, max |-> 500],
      [bankroll |-> 1000,    start |-> 1200, spins |-> 2,  min |-> 200, max |-> 1500],
      [bankroll |-> 2000,    start |-> 1200, spins |-> 2,  min |-> 200, max |-> 1500] }

\* the wheel outcomes of a run: a green, a red and a black number
RunOutcomes == {0, 1, 2}

\* the lists of random numbers drawn for a run, cut to their first element
\* (the only one the run reads)
RunNumberLists == {<<n>> : n \in RunOutcomes}

\* get_first_bets(color)
get_first_bets(c) ==
    IF c = "black"
    THEN << [bet_type |-> "black", bet_amount |-> STARTING_BET, bet_numbers |-> {}] >>
    ELSE << [bet_type |-> "red", bet_amount |-> STARTING_BET, bet_numbers |-> {}] >>

\* a division of two counts: the quotient as numerator and denominator, or
\* the ZeroDivisionError of a division by 0
count_ratio(numerator, denominator) ==
    IF denominator = 0
    THEN [error |-> "ZeroDivisionError", inf |-> FALSE, num |-> numerator, den |-> 0]
    ELSE [error |-> "", inf |-> FALSE, num |-> numerator, den |-> denominator]

\* float('inf')
float_inf == [error |-> "", inf |-> TRUE, num |-> 0, den |-> 1]

\* get_black_red_ratio without the test for a red count of 0
get_black_red_ratio_without_zero_test(reds, blacks) == count_ratio(blacks, reds)

\* get_black_red_ratio() for the given counts: inf when red_count is 0
get_black_red_ratio(reds, blacks) ==
    IF reds = 0
    THEN float_inf
    ELSE count_ratio(blacks, reds)

\* get_red_black_ratio() for the given counts: inf when black_count is 0
get_red_black_ratio(reds, blacks) ==
    IF blacks = 0
    THEN float_inf
    ELSE count_ratio(reds, blacks)

\* ratio >= SWITCH_RATIO
at_least_switch_ratio(ratio) ==
    ratio.inf \/ 10 * ratio.num >= SWITCH_RATIO_TENTHS * ratio.den

\* the call roulette.get_red_black_ratio() on the emulator
GetRedBlackRatio ==
    /\ red_black_ratio' = get_red_black_ratio(red_count, black_count)
    /\ UNCHANGED <<black_red_ratio, streakVars, estimateVars, seedVars, colorStreakVars, switchVars>>
    /\ UNCHANGED <<wheelVars, colorVars, payVars, betVars, pairVars, walkVars, runVars>>

\* the call roulette.get_black_red_ratio() on the emulator
GetBlackRedRatio ==
    /\ black_red_ratio' = get_black_red_ratio(red_count, black_count)
    /\ UNCHANGED <<red_black_ratio, streakVars, estimateVars, seedVars, colorStreakVars, switchVars>>
    /\ UNCHANGED <<wheelVars, colorVars, payVars, betVars, pairVars, walkVars, runVars>>

\* get_next_color_bet that moves to the colour that came up more often
get_next_color_bet_to_dominant(spins, new_bet_tuple, reds, blacks) ==
    LET c_bet_color == new_bet_tuple.bet_type
    IN  IF c_bet_color = "red" /\ spins >= 12
            /\ at_least_switch_ratio(get_black_red_ratio(reds, blacks))
        THEN [bet |-> [new_bet_tuple EXCEPT !.bet_type = "black"], switched |-> TRUE]
        ELSE IF c_bet_color = "black" /\ spins >= 12
                /\ at_least_switch_ratio(get_red_black_ratio(reds, blacks))
        THEN [bet |-> [new_bet_tuple EXCEPT !.bet_type = "red"], switched |-> TRUE]
        ELSE [bet |-> new_bet_tuple, switched |-> FALSE]

\* get_next_color_bet whose switched bet takes the starting stake
get_next_color_bet_at_starting_bet(spins, new_bet_tuple, reds, blacks) ==
    LET c_bet_color == new_bet_tuple.bet_type
    IN  IF c_bet_color = "red" /\ spins >= 12
            /\ at_least_switch_ratio(get_red_black_ratio(reds, blacks))
        THEN [bet |-> [bet_type |-> "black", bet_amount |-> STARTING_BET,
                       bet_numbers |-> {}],
              switched |-> TRUE]
        ELSE IF c_bet_color = "black" /\ spins >= 12
                /\ at_least_switch_ratio(get_black_red_ratio(reds, blacks))
        THEN [bet |-> [bet_type |-> "red", bet_amount |-> STARTING_BET,
                       bet_numbers |-> {}],
              switched |-> TRUE]
        ELSE [bet |-> new_bet_tuple, switched |-> FALSE]

\* get_next_color_bet(spins, new_bet_tuple, roulette): from 12 spins on, leave
\* the colour whose count is SWITCH_RATIO times the other's; switched tells
\* whether sim_switch_track was appended to
get_next_color_bet(spins, new_bet_tuple, reds, blacks) ==
    LET c_bet_color == new_bet_tuple.bet_type
    IN  IF c_bet_color = "red" /\ spins >= 12
            /\ at_least_switch_ratio(get_red_black_ratio(reds, blacks))
        THEN [bet |-> [bet_type |-> "black", bet_amount |-> new_bet_tuple.bet_amount,
                       bet_numbers |-> {}],
              switched |-> TRUE]
        ELSE IF c_bet_color = "black" /\ spins >= 12
                /\ at_least_switch_ratio(get_black_red_ratio(reds, blacks))
        THEN [bet |-> [bet_type |-> "red", bet_amount |-> new_bet_tuple.bet_amount,
                       bet_numbers |-> {}],
              switched |-> TRUE]
        ELSE [bet |-> new_bet_tuple, switched |-> FALSE]

\* min_bet_reached_switch_color(spins, bet_color, bet_amount): the bet on the
\* other colour while spins < 12, None otherwise
min_bet_reached_switch_color(spins, bet_color, amount) ==
    IF bet_color = "red" /\ spins < 12
    THEN [none |-> FALSE,
          bet |-> [bet_type |-> "black", bet_amount |-> amount, bet_numbers |-> {}]]
    ELSE IF bet_color = "black" /\ spins < 12
    THEN [none |-> FALSE,
          bet |-> [bet_type |-> "red", bet_amount |-> amount, bet_numbers |-> {}]]
    ELSE [none |-> TRUE,
          bet |-> [bet_type |-> bet_color, bet_amount |-> amount, bet_numbers |-> {}]]

\* the for loop of play_round over the bets from position i on
RECURSIVE total_payout_from(_, _, _)
total_payout_from(i, placed, r) ==
    IF i > Len(placed) THEN 0
    ELSE calculate_payout(placed[i].bet_type, placed[i].bet_amount,
                          placed[i].bet_numbers, r, TRUE).value
         + total_payout_from(i + 1, placed, r)

\* bankroll > amount, as the floats compare
bankroll_above(amount) ==
    bankroll > amount \/ (bankroll = amount /\ float_excess > 0)

\* bankroll < amount, as the floats compare
bankroll_below(amount) ==
    bankroll < amount \/ (bankroll = amount /\ float_excess < 0)

\* the signs the rounding error of a bankroll can have where it matters: the
\* sum of the profits is rounded at every addition, so at an amount the code
\* compares the bankroll with, the float lies on either side of it or on it
float_excess_of(amount, bet) ==
    IF amount \in {STARTING_BANKROLL, STARTING_BANKROLL + 6000, bet}
    THEN {-1, 0, 1}
    ELSE {0}

\* the run before its first spin
RunStart ==
    /\ bankroll = STARTING_BANKROLL
    /\ float_excess = 0
    /\ current_bet_amount = STARTING_BET
    /\ new_bet_amount = 0
    /\ spins_completed = 0
    /\ stop_reason = ""
    /\ first_time = TRUE
    /\ win_count = 0
    /\ loss_count = 0
    /\ bets = get_first_bets(get_color(first_number))
    /\ spin_index = 0
    /\ profit = 0
    /\ run_error = ""

\* the stop checks at the top of the while loop with the two profit stops in
\* the other order
stop_check_ext_first ==
    IF bankroll_below(current_bet_amount) THEN "bankruptcy"
    ELSE IF spin_index >= SPINS_PER_SIMULATION /\ win_count > loss_count
    THEN "ext_stop_profit"
    ELSE IF spin_index >= SPINS_PER_SIMULATION /\ bankroll_above(STARTING_BANKROLL + 6000)
    THEN "end_stop_profit"
    ELSE IF spin_index >= 12 /\ red_count = black_count /\ bankroll_above(STARTING_BANKROLL)
    THEN "equal_red_black_stop"
    ELSE ""

\* the stop checks with an end_stop_profit that stops for any profit
stop_check_any_profit ==
    IF bankroll_below(current_bet_amount) THEN "bankruptcy"
    ELSE IF spin_index >= SPINS_PER_SIMULATION /\ bankroll_above(STARTING_BANKROLL)
    THEN "end_stop_profit"
    ELSE IF spin_index >= SPINS_PER_SIMULATION /\ win_count > loss_count
    THEN "ext_stop_profit"
    ELSE IF spin_index >= 12 /\ red_count = black_count /\ bankroll_above(STARTING_BANKROLL)
    THEN "equal_red_black_stop"
    ELSE ""

\* the stop checks with a bankruptcy test for a bankroll below zero
stop_check_below_zero ==
    IF bankroll < 0 THEN "bankruptcy"
    ELSE IF spin_index >= SPINS_PER_SIMULATION /\ bankroll_above(STARTING_BANKROLL + 6000)
    THEN "end_stop_profit"
    ELSE IF spin_index >= SPINS_PER_SIMULATION /\ win_count > loss_count
    THEN "ext_stop_profit"
    ELSE IF spin_index >= 12 /\ red_count = black_count /\ bankroll_above(STARTING_BANKROLL)
    THEN "equal_red_black_stop"
    ELSE ""

\* the stop checks at the top of the while loop, in the order of the code:
\* the stop reason of the first check that holds, "" when none does
stop_check ==
    IF bankroll_below(current_bet_amount) THEN "bankruptcy"
    ELSE IF spin_index >= SPINS_PER_SIMULATION /\ bankroll_above(STARTING_BANKROLL + 6000)
    THEN "end_stop_profit"
    ELSE IF spin_index >= SPINS_PER_SIMULATION /\ win_count > loss_count
    THEN "ext_stop_profit"
    ELSE IF spin_index >= 12 /\ red_count = black_count /\ bankroll_above(STARTING_BANKROLL)
    THEN "equal_red_black_stop"
    ELSE ""

\* what a stop at the top of the loop leaves alone: everything but the stop
\* reason, the position and the bankruptcy counter
StopFrame ==
    UNCHANGED <<configVars, sim_num, run_numbers, first_number, bankroll, float_excess,
                current_bet_amount,
                new_bet_amount, spins_completed, first_time, win_count, loss_count,
                bets, spin_index, profit, run_error, max_bet_reached, min_bet_reached,
                completed_all_spins, sim_switch_track, sim_win_track, results,
                wheelVars, colorVars, payVars, betVars, pairVars, walkVars, sideVars>>

\* if bankroll < current_bet_amount: stop_reason = "bankruptcy"; break
StopBankruptcy ==
    /\ pc = "loop"
    /\ stop_check = "bankruptcy"
    /\ stop_reason' = "bankruptcy"
    /\ bankruptcies' = bankruptcies + 1
    /\ pc' = "stopped"
    /\ StopFrame

\* the profit stop without its break: the reason is set and the loop goes on
StopEndProfit_without_break ==
    /\ pc = "loop"
    /\ stop_check = "end_stop_profit"
    /\ stop_reason' = "end_stop_profit"
    /\ pc' = "loop"
    /\ UNCHANGED bankruptcies
    /\ StopFrame

\* the spin budget is reached with a profit above 6.00: "end_stop_profit"
StopEndProfit ==
    /\ pc = "loop"
    /\ stop_check = "end_stop_profit"
    /\ stop_reason' = "end_stop_profit"
    /\ pc' = "stopped"
    /\ UNCHANGED bankruptcies
    /\ StopFrame

\* the spin budget is reached with more wins than losses: "ext_stop_profit"
StopExtProfit ==
    /\ pc = "loop"
    /\ stop_check = "ext_stop_profit"
    /\ stop_reason' = "ext_stop_profit"
    /\ pc' = "stopped"
    /\ UNCHANGED bankruptcies
    /\ StopFrame

\* 12 spins or more, as many reds as blacks, and a gain: "equal_red_black_stop"
StopEqualRedBlack ==
    /\ pc = "loop"
    /\ stop_check = "equal_red_black_stop"
    /\ stop_reason' = "equal_red_black_stop"
    /\ pc' = "stopped"
    /\ UNCHANGED bankruptcies
    /\ StopFrame

\* the win branch of the loop body: the decreased bet and, at or below
\* MIN_BET, the switch of colour or the stop
win_branch ==
    LET decreased == get_bet_decrease(current_bet_amount)
        current == round2(decreased.value)
        new_bets == min_bet_reached_switch_color(spin_index, bets[1].bet_type, STARTING_BET)
    IN  IF decreased.error # ""
        THEN [error |-> decreased.error, stop |-> "", current |-> current_bet_amount,
              new |-> new_bet_amount, placed |-> bets, switched |-> FALSE]
        ELSE IF current <= MIN_BET /\ new_bets.none
        THEN [error |-> "", stop |-> "min_bet", current |-> current,
              new |-> decreased.value, placed |-> bets, switched |-> FALSE]
        ELSE IF current <= MIN_BET
        THEN [error |-> "", stop |-> "", current |-> current,
              new |-> STARTING_BET, placed |-> <<new_bets.bet>>, switched |-> TRUE]
        ELSE [error |-> "", stop |-> "", current |-> current,
              new |-> decreased.value, placed |-> bets, switched |-> FALSE]

\* the loss branch that keeps the increased bet when it stops at MAX_BET
loss_branch_without_clamp ==
    LET increased == get_bet_increase(current_bet_amount)
        current == round2(increased.value)
    IN  IF increased.error # ""
        THEN [error |-> increased.error, stop |-> "", current |-> current_bet_amount,
              new |-> new_bet_amount, placed |-> bets, switched |-> FALSE]
        ELSE IF current >= MAX_BET
        THEN [error |-> "", stop |-> "max_bet", current |-> current,
              new |-> increased.value, placed |-> bets, switched |-> FALSE]
        ELSE [error |-> "", stop |-> "", current |-> current,
              new |-> increased.value, placed |-> bets, switched |-> FALSE]

\* the loss branch of the loop body: the increased bet and, at or above
\* MAX_BET, the clamp and the stop
loss_branch ==
    LET increased == get_bet_increase(current_bet_amount)
        current == round2(increased.value)
    IN  IF increased.error # ""
        THEN [error |-> increased.error, stop |-> "", current |-> current_bet_amount,
              new |-> new_bet_amount, placed |-> bets, switched |-> FALSE]
        ELSE IF current >= MAX_BET
        THEN [error |-> "", stop |-> "max_bet", current |-> MAX_BET,
              new |-> increased.value, placed |-> bets, switched |-> FALSE]
        ELSE [error |-> "", stop |-> "", current |-> current,
              new |-> increased.value, placed |-> bets, switched |-> FALSE]

\* sim_switch_track after the appends of one spin
switch_track_after(early, dominance) ==
    LET first == IF early THEN Append(sim_switch_track, sim_num + 1) ELSE sim_switch_track
    IN  IF dominance THEN Append(first, sim_num + 1) ELSE first

\* the loop body with a play_round that does not count the zeros
PlaySpin_zero_uncounted ==
    /\ pc = "loop"
    /\ stop_check = ""
    /\ Len(history) < MaxRunSpins
    /\ \E r \in RunOutcomes :
        /\ r = 0 => zero_count < MaxZeros
        /\ result' = r
        /\ history' = Append(history, r)
        /\ spin_count' = spin_count + 1
        /\ red_count' = IF r \in RED_NUMBERS THEN red_count + 1 ELSE red_count
        /\ black_count' = IF r \in BLACK_NUMBERS THEN black_count + 1 ELSE black_count
        /\ zero_count' = zero_count
        /\ profit' = total_payout_from(1, bets, r)
    /\ UNCHANGED <<random_numbers, random_index>>
    /\ bankroll' = bankroll + profit'
    /\ spins_completed' = spins_completed + 1
    /\ LET branch == IF profit' > 0 THEN win_branch ELSE loss_branch
           next_bet == get_next_color_bet(spin_index + 1,
                           [bet_type |-> branch.placed[1].bet_type,
                            bet_amount |-> branch.new, bet_numbers |-> {}],
                           red_count', black_count')
       IN  IF branch.error # ""
           THEN /\ pc' = "raised"
                /\ run_error' = branch.error
                /\ UNCHANGED <<current_bet_amount, new_bet_amount, stop_reason, first_time,
                               win_count, loss_count, bets, spin_index, trackVars>>
           ELSE /\ win_count' = IF profit' > 0 THEN win_count + 1 ELSE win_count
                /\ loss_count' = IF profit' > 0 THEN loss_count ELSE loss_count + 1
                /\ new_bet_amount' = branch.new
                /\ stop_reason' = branch.stop
                /\ min_bet_reached' = IF branch.stop = "min_bet"
                                      THEN min_bet_reached + 1 ELSE min_bet_reached
                /\ max_bet_reached' = IF branch.stop = "max_bet"
                                      THEN max_bet_reached + 1 ELSE max_bet_reached
                /\ UNCHANGED <<run_error, bankruptcies, completed_all_spins,
                               sim_win_track, results>>
                /\ IF branch.stop # ""
                   THEN /\ pc' = "stopped"
                        /\ current_bet_amount' = branch.current
                        /\ UNCHANGED <<first_time, bets, spin_index, sim_switch_track>>
                   ELSE /\ pc' = "loop"
                        /\ spin_index' = spin_index + 1
                        /\ first_time' = FALSE
                        /\ current_bet_amount' = round2(branch.new)
                        /\ bets' = <<next_bet.bet>>
                        /\ sim_switch_track' =
                               switch_track_after(branch.switched, next_bet.switched)
    /\ float_excess' \in float_excess_of(bankroll', current_bet_amount')
    /\ UNCHANGED <<configVars, sim_num, run_numbers, first_number>>
    /\ UNCHANGED <<colorVars, payVars, betVars, pairVars, walkVars, sideVars>>

\* one pass of the loop body below the stop checks: play_round (spin() in
\* random mode, the colour counts, the payout), the bankroll, the bet
\* adjustment with its stops and the early switch, and the next bet
PlaySpin ==
    /\ pc = "loop"
    /\ stop_check = ""
    /\ Len(history) < MaxRunSpins
    /\ \E r \in RunOutcomes :
        /\ r = 0 => zero_count < MaxZeros
        /\ result' = r
        /\ history' = Append(history, r)
        /\ spin_count' = spin_count + 1
        /\ red_count' = IF r \in RED_NUMBERS THEN red_count + 1 ELSE red_count
        /\ black_count' = IF r \in BLACK_NUMBERS THEN black_count + 1 ELSE black_count
        /\ zero_count' = IF r \notin RED_NUMBERS \cup BLACK_NUMBERS
                         THEN zero_count + 1 ELSE zero_count
        /\ profit' = total_payout_from(1, bets, r)
    /\ UNCHANGED <<random_numbers, random_index>>
    /\ bankroll' = bankroll + profit'
    /\ spins_completed' = spins_completed + 1
    /\ LET branch == IF profit' > 0 THEN win_branch ELSE loss_branch
           next_bet == get_next_color_bet(spin_index + 1,
                           [bet_type |-> branch.placed[1].bet_type,
                            bet_amount |-> branch.new, bet_numbers |-> {}],
                           red_count', black_count')
       IN  IF branch.error # ""
           THEN /\ pc' = "raised"
                /\ run_error' = branch.error
                /\ UNCHANGED <<current_bet_amount, new_bet_amount, stop_reason, first_time,
                               win_count, loss_count, bets, spin_index, trackVars>>
           ELSE /\ win_count' = IF profit' > 0 THEN win_count + 1 ELSE win_count
                /\ loss_count' = IF profit' > 0 THEN loss_count ELSE loss_count + 1
                /\ new_bet_amount' = branch.new
                /\ stop_reason' = branch.stop
                /\ min_bet_reached' = IF branch.stop = "min_bet"
                                      THEN min_bet_reached + 1 ELSE min_bet_reached
                /\ max_bet_reached' = IF branch.stop = "max_bet"
                                      THEN max_bet_reached + 1 ELSE max_bet_reached
                /\ UNCHANGED <<run_error, bankruptcies, completed_all_spins,
                               sim_win_track, results>>
                /\ IF branch.stop # ""
                   THEN /\ pc' = "stopped"
                        /\ current_bet_amount' = branch.current
                        /\ UNCHANGED <<first_time, bets, spin_index, sim_switch_track>>
                   ELSE /\ pc' = "loop"
                        /\ spin_index' = spin_index + 1
                        /\ first_time' = FALSE
                        /\ current_bet_amount' = round2(branch.new)
                        /\ bets' = <<next_bet.bet>>
                        /\ sim_switch_track' =
                               switch_track_after(branch.switched, next_bet.switched)
    /\ float_excess' \in float_excess_of(bankroll', current_bet_amount')
    /\ UNCHANGED <<configVars, sim_num, run_numbers, first_number>>
    /\ UNCHANGED <<colorVars, payVars, betVars, pairVars, walkVars, sideVars>>

\* the code after the loop without its test of stop_reason
RecordRun_always_completed ==
    /\ pc = "stopped"
    /\ LET profit_loss == bankroll - STARTING_BANKROLL
           gain == bankroll_above(STARTING_BANKROLL)
       IN  /\ stop_reason' = "completed"
           /\ completed_all_spins' = completed_all_spins + 1
           /\ sim_win_track' = IF gain THEN Append(sim_win_track, sim_num + 1)
                               ELSE sim_win_track
           /\ results' = Append(results,
                  [simulation |-> sim_num + 1,
                   final_bankroll |-> bankroll,
                   profit_loss |-> profit_loss,
                   spins_completed |-> spins_completed,
                   stop_reason |-> stop_reason',
                   win_count |-> win_count,
                   loss_count |-> loss_count])
    /\ pc' = "done"
    /\ UNCHANGED <<configVars, sim_num, run_numbers, first_number, bankroll, float_excess,
                   current_bet_amount,
                   new_bet_amount, spins_completed, first_time, win_count, loss_count,
                   bets, spin_index, profit, run_error, bankruptcies, max_bet_reached,
                   min_bet_reached, sim_switch_track>>
    /\ UNCHANGED <<wheelVars, colorVars, payVars, betVars, pairVars, walkVars, sideVars>>

\* after the loop: "completed" for a loop left without a reason, the profit
\* or loss, the win track and the run's entry in results
RecordRun ==
    /\ pc = "stopped"
    /\ LET profit_loss == bankroll - STARTING_BANKROLL
           gain == bankroll_above(STARTING_BANKROLL)
       IN  /\ stop_reason' = IF stop_reason = "" THEN "completed" ELSE stop_reason
           /\ completed_all_spins' = IF stop_reason = "" THEN completed_all_spins + 1
                                     ELSE completed_all_spins
           /\ sim_win_track' = IF gain THEN Append(sim_win_track, sim_num + 1)
                               ELSE sim_win_track
           /\ results' = Append(results,
                  [simulation |-> sim_num + 1,
                   final_bankroll |-> bankroll,
                   profit_loss |-> profit_loss,
                   spins_completed |-> spins_completed,
                   stop_reason |-> stop_reason',
                   win_count |-> win_count,
                   loss_count |-> loss_count])
    /\ pc' = "done"
    /\ UNCHANGED <<configVars, sim_num, run_numbers, first_number, bankroll, float_excess,
                   current_bet_amount,
                   new_bet_amount, spins_completed, first_time, win_count, loss_count,
                   bets, spin_index, profit, run_error, bankruptcies, max_bet_reached,
                   min_bet_reached, sim_switch_track>>
    /\ UNCHANGED <<wheelVars, colorVars, payVars, betVars, pairVars, walkVars, sideVars>>

\* the loop body of PlaySpin for runs of any length: the list self.history,
\* which the run never reads, is not kept
PlaySpinUnrecorded ==
    /\ pc = "loop"
    /\ stop_check = ""
    /\ spin_index < MaxLiveSpins
    /\ \E r \in RunOutcomes :
        /\ result' = r
        /\ UNCHANGED history
        /\ spin_count' = spin_count + 1
        /\ red_count' = IF r \in RED_NUMBERS THEN red_count + 1 ELSE red_count
        /\ black_count' = IF r \in BLACK_NUMBERS THEN black_count + 1 ELSE black_count
        /\ zero_count' = IF r \notin RED_NUMBERS \cup BLACK_NUMBERS
                         THEN zero_count + 1 ELSE zero_count
        /\ profit' = total_payout_from(1, bets, r)
    /\ UNCHANGED <<random_numbers, random_index>>
    /\ bankroll' = bankroll + profit'
    /\ spins_completed' = spins_completed + 1
    /\ LET branch == IF profit' > 0 THEN win_branch ELSE loss_branch
           next_bet == get_next_color_bet(spin_index + 1,
                           [bet_type |-> branch.placed[1].bet_type,
                            bet_amount |-> branch.new, bet_numbers |-> {}],
                           red_count', black_count')
       IN  IF branch.error # ""
           THEN /\ pc' = "raised"
                /\ run_error' = branch.error
                /\ UNCHANGED <<current_bet_amount, new_bet_amount, stop_reason, first_time,
                               win_count, loss_count, bets, spin_index, trackVars>>
           ELSE /\ win_count' = IF profit' > 0 THEN win_count + 1 ELSE win_count
                /\ loss_count' = IF profit' > 0 THEN loss_count ELSE loss_count + 1
                /\ new_bet_amount' = branch.new
                /\ stop_reason' = branch.stop
                /\ min_bet_reached' = IF branch.stop = "min_bet"
                                      THEN min_bet_reached + 1 ELSE min_bet_reached
                /\ max_bet_reached' = IF branch.stop = "max_bet"
                                      THEN max_bet_reached + 1 ELSE max_bet_reached
                /\ UNCHANGED <<run_error, bankruptcies, completed_all_spins,
                               sim_win_track, results>>
                /\ IF branch.stop # ""
                   THEN /\ pc' = "stopped"
                        /\ current_bet_amount' = branch.current
                        /\ UNCHANGED <<first_time, bets, spin_index, sim_switch_track>>
                   ELSE /\ pc' = "loop"
                        /\ spin_index' = spin_index + 1
                        /\ first_time' = FALSE
                        /\ current_bet_amount' = round2(branch.new)
                        /\ bets' = <<next_bet.bet>>
                        /\ sim_switch_track' =
                               switch_track_after(branch.switched, next_bet.switched)
    /\ float_excess' \in float_excess_of(bankroll', current_bet_amount')
    /\ UNCHANGED <<configVars, sim_num, run_numbers, first_number>>
    /\ UNCHANGED <<colorVars, payVars, betVars, pairVars, walkVars, sideVars>>

---------------------------------------------------------------------------
(* monte_carlo.py: streaks of red in a sequence of outcomes *)

\* the outcomes simulate_roulette_spins produces: red, black, green
SpinColors == {"R", "B", "G"}

\* the for loop of count_streaks from position i on, counting a streak again
\* with every further red of the run (current_streak is not reset)
RECURSIVE count_streaks_from_overlapping(_, _, _, _, _)
count_streaks_from_overlapping(i, spins, k, counted, current_streak) ==
    IF i > Len(spins) THEN counted
    ELSE IF spins[i] = "R"
    THEN IF current_streak + 1 >= k
         THEN count_streaks_from_overlapping(i + 1, spins, k, counted + 1, current_streak + 1)
         ELSE count_streaks_from_overlapping(i + 1, spins, k, counted, current_streak + 1)
    ELSE count_streaks_from_overlapping(i + 1, spins, k, counted, 0)

\* the for loop of count_streaks from position i on: a red extends the
\* current streak, which is counted and reset when it reaches the streak
\* length; any other outcome resets it
RECURSIVE count_streaks_from(_, _, _, _, _)
count_streaks_from(i, spins, k, counted, current_streak) ==
    IF i > Len(spins) THEN counted
    ELSE IF spins[i] = "R"
    THEN IF current_streak + 1 = k
         THEN count_streaks_from(i + 1, spins, k, counted + 1, 0)
         ELSE count_streaks_from(i + 1, spins, k, counted, current_streak + 1)
    ELSE count_streaks_from(i + 1, spins, k, counted, 0)

\* count_streaks(spins, streak_length)
count_streaks(spins, k) == count_streaks_from(1, spins, k, 0, 0)

\* the sequences of outcomes of the lengths 0..n
RECURSIVE SpinSequences(_)
SpinSequences(n) ==
    IF n = 0 THEN {<<>>}
    ELSE LET shorter == SpinSequences(n - 1)
         IN  shorter \cup {Append(q, c) : q \in {x \in shorter : Len(x) = n - 1},
                                          c \in SpinColors}

\* the call count_streaks(trial_spins, streak_length)
CountStreaks ==
    /\ count = -1
    /\ count' = count_streaks(trial_spins, streak_length)
    /\ UNCHANGED <<trial_spins, streak_length, estimateVars, ratioVars, seedVars,
                   colorStreakVars, switchVars>>
    /\ UNCHANGED <<wheelVars, colorVars, payVars, betVars, pairVars, walkVars, runVars>>

---------------------------------------------------------------------------
(* monte_carlo.py: the floats of the estimate *)

\* A Python float (IEEE 754 binary64) is modelled exactly: a record of a
\* significand m, three limbs of 18 binary digits, most significant first,
\* and an exponent e, with value (m[1] * Limb^2 + m[2] * Limb + m[3]) * 2^e.
\* The first limb has its top digit set and the last digit of the third limb
\* is 0, so m holds the 53 digits of the double's significand.  Only floats
\* >= 0 occur.

\* binary digits of a limb
LimbBits == 18

\* the base of the limbs
Limb == 2 ^ LimbBits

\* the float 0.0
float_zero == [m |-> <<0, 0, 0>>, e |-> 0]

\* n zero limbs
ZeroLimbs(n) == [i \in 1..n |-> 0]

\* the number of binary digits of a limb value
BitLength(v) ==
    CHOOSE k \in 0..LimbBits : v < 2 ^ k /\ (k = 0 \/ v >= 2 ^ (k - 1))

\* the limbs without their leading zero limbs
RECURSIVE StripLimbs(_)
StripLimbs(limbs) ==
    IF limbs = <<>> THEN <<>>
    ELSE IF limbs[1] = 0 THEN StripLimbs(Tail(limbs))
    ELSE limbs

\* the limbs of the number times 2^s, 0 <= s < LimbBits, for a first limb
\* below 2^(LimbBits - s)
ShiftLeft(limbs, s) ==
    [i \in 1..Len(limbs) |->
        (limbs[i] % (2 ^ (LimbBits - s))) * (2 ^ s)
        + (IF i < Len(limbs) THEN limbs[i + 1] \div (2 ^ (LimbBits - s)) ELSE 0)]

\* the float nearest to limbs * 2^e (plus a nonzero remainder below the last
\* limb when sticky), ties to the even significand
RoundToFloat(limbs, e, sticky) ==
    LET b == StripLimbs(limbs)
    IN  IF b = <<>> THEN float_zero
        ELSE
        LET s == LimbBits - BitLength(b[1])
            shifted == ShiftLeft(b, s) \o ZeroLimbs(IF Len(b) < 3 THEN 3 - Len(b) ELSE 0)
            exponent == e - s + LimbBits * (Len(b) - 3)
            guard == shifted[3] % 2
            below == sticky \/ \E i \in 4..Len(shifted) : shifted[i] # 0
            up == guard = 1 /\ (below \/ (shifted[3] \div 2) % 2 = 1)
            third == shifted[3] - guard + (IF up THEN 2 ELSE 0)
        IN  IF third < Limb
            THEN [m |-> <<shifted[1], shifted[2], third>>, e |-> exponent]
            ELSE IF shifted[2] + 1 < Limb
            THEN [m |-> <<shifted[1], shifted[2] + 1, 0>>, e |-> exponent]
            ELSE IF shifted[1] + 1 < Limb
            THEN [m |-> <<shifted[1] + 1, 0, 0>>, e |-> exponent]
            ELSE [m |-> <<Limb \div 2, 0, 0>>, e |-> exponent + 1]

\* long division of the limbs from position i on by n: the quotient's limbs
\* and the remainder
RECURSIVE LongDivision(_, _, _, _, _)
LongDivision(i, dividend, n, quotient, remainder) ==
    IF i > Len(dividend) THEN [quotient |-> quotient, remainder |-> remainder]
    ELSE LET r == remainder * Limb + dividend[i]
         IN  LongDivision(i + 1, dividend, n, Append(quotient, r \div n), r % n)

\* c / n of two natural numbers below 2^12, n > 0: the correctly rounded
\* quotient, from the quotient of c * Limb^4 by n and its remainder
float_div(c, n) ==
    LET d == LongDivision(1, <<c>> \o ZeroLimbs(4), n, <<>>, 0)
    IN  RoundToFloat(d.quotient, 0 - 4 * LimbBits, d.remainder # 0)

\* the limbs of limbs * k + carry, computed from the last limb on
RECURSIVE TimesSmall(_, _, _)
TimesSmall(limbs, k, carry) ==
    IF limbs = <<>> THEN <<carry>>
    ELSE LET n == Len(limbs)
             t == limbs[n] * k + carry
         IN  Append(TimesSmall(SubSeq(limbs, 1, n - 1), k, t \div Limb), t % Limb)

\* x * k of a float and a natural number below 2^12
float_mul(x, k) == RoundToFloat(TimesSmall(x.m, k, 0), x.e, FALSE)

\* the limbs of a + b + carry for limb sequences of the same length
RECURSIVE PlusLimbs(_, _, _)
PlusLimbs(a, b, carry) ==
    IF a = <<>> THEN <<carry>>
    ELSE LET n == Len(a)
             t == a[n] + b[n] + carry
         IN  Append(PlusLimbs(SubSeq(a, 1, n - 1), SubSeq(b, 1, n - 1), t \div Limb),
                    t % Limb)

\* the limbs of a - b - borrow for limb sequences of the same length, a >= b
RECURSIVE MinusLimbs(_, _, _)
MinusLimbs(a, b, borrow) ==
    IF a = <<>> THEN <<>>
    ELSE LET n == Len(a)
             t == a[n] - b[n] - borrow
         IN  Append(MinusLimbs(SubSeq(a, 1, n - 1), SubSeq(b, 1, n - 1),
                               IF t < 0 THEN 1 ELSE 0),
                    IF t < 0 THEN t + Limb ELSE t)

\* the limbs of the float's significand times 2^d
Scaled(x, d) == ShiftLeft(<<0>> \o x.m \o ZeroLimbs(d \div LimbBits), d % LimbBits)

\* the significands of two floats as limbs of the same length at their
\* smaller exponent (a zero at the other's exponent)
Aligned(x, y) ==
    LET e == IF x = float_zero THEN y.e ELSE IF y = float_zero THEN x.e
             ELSE IF x.e < y.e THEN x.e ELSE y.e
        a == IF x = float_zero THEN <<>> ELSE Scaled(x, x.e - e)
        b == IF y = float_zero THEN <<>> ELSE Scaled(y, y.e - e)
        n == IF Len(a) > Len(b) THEN Len(a) ELSE Len(b)
    IN  [a |-> ZeroLimbs(n - Len(a)) \o a, b |-> ZeroLimbs(n - Len(b)) \o b, e |-> e]

\* x + y of two floats
float_add(x, y) ==
    LET s == Aligned(x, y) IN RoundToFloat(PlusLimbs(s.a, s.b, 0), s.e, FALSE)

\* x - y of two floats, x >= y
float_sub(x, y) ==
    LET s == Aligned(x, y) IN RoundToFloat(MinusLimbs(s.a, s.b, 0), s.e, FALSE)

\* whether the limbs a are at most the limbs b, both of the same length
RECURSIVE LimbsAtMost(_, _)
LimbsAtMost(a, b) ==
    IF a = <<>> THEN TRUE
    ELSE IF a[1] # b[1] THEN a[1] < b[1]
    ELSE LimbsAtMost(Tail(a), Tail(b))

\* x <= y of two floats
float_le(x, y) ==
    LET s == Aligned(x, y) IN LimbsAtMost(s.a, s.b)

\* a natural number below 2^18 as a float
float_of(n) == RoundToFloat(<<n>>, 0, FALSE)

---------------------------------------------------------------------------
(* monte_carlo.py: run_simulation, the estimate of the streak probabilities *)

\* the increments of the seven counters with four_or_more for more than 4
bucket_increments_above_four(c) ==
    [at_least_one |-> IF c >= 1 THEN 1 ELSE 0,
     at_least_two |-> IF c >= 2 THEN 1 ELSE 0,
     at_least_three |-> IF c >= 3 THEN 1 ELSE 0,
     exactly_one |-> IF c = 1 THEN 1 ELSE 0,
     exactly_two |-> IF c = 2 THEN 1 ELSE 0,
     exactly_three |-> IF c = 3 THEN 1 ELSE 0,
     four_or_more |-> IF c > 4 THEN 1 ELSE 0]

\* the increments of the seven counters for a trial with streak count c
bucket_increments(c) ==
    [at_least_one |-> IF c >= 1 THEN 1 ELSE 0,
     at_least_two |-> IF c >= 2 THEN 1 ELSE 0,
     at_least_three |-> IF c >= 3 THEN 1 ELSE 0,
     exactly_one |-> IF c = 1 THEN 1 ELSE 0,
     exactly_two |-> IF c = 2 THEN 1 ELSE 0,
     exactly_three |-> IF c = 3 THEN 1 ELSE 0,
     four_or_more |-> IF c >= 4 THEN 1 ELSE 0]

\* (c / n) * 100 in floats
percentage(c, n) == float_mul(float_div(c, n), 100)

\* the estimate before run_simulation has returned
NoEstimate ==
    [at_least_one |-> float_zero, at_least_two |-> float_zero,
     at_least_three |-> float_zero, exactly_one |-> float_zero,
     exactly_two |-> float_zero, exactly_three |-> float_zero,
     four_or_more |-> float_zero, zero_streaks |-> float_zero]

\* one pass of the for loop: the spins of the trial, their streak count and
\* the counters
RunTrial ==
    /\ mc_pc = "trials"
    /\ trial < num_simulations
    /\ \E spins \in {q \in SpinSequences(num_spins) : Len(q) = num_spins} :
        /\ trial_spins' = spins
        /\ streak_count' = count_streaks(spins, streak_length)
    /\ LET by == bucket_increments(streak_count')
       IN  /\ at_least_one' = at_least_one + by.at_least_one
           /\ at_least_two' = at_least_two + by.at_least_two
           /\ at_least_three' = at_least_three + by.at_least_three
           /\ exactly_one' = exactly_one + by.exactly_one
           /\ exactly_two' = exactly_two + by.exactly_two
           /\ exactly_three' = exactly_three + by.exactly_three
           /\ four_or_more' = four_or_more + by.four_or_more
    /\ trial' = trial + 1
    /\ UNCHANGED <<num_simulations, num_spins, streak_length, count, mc_pc, estimate>>
    /\ UNCHANGED <<ratioVars, seedVars, colorStreakVars, switchVars>>
    /\ UNCHANGED <<wheelVars, colorVars, payVars, betVars, pairVars, walkVars, runVars>>

\* after the loop: the dictionary of percentages; the divisions by
\* num_simulations raise ZeroDivisionError for no trials
ReturnEstimate ==
    /\ mc_pc = "trials"
    /\ trial = num_simulations
    /\ IF num_simulations = 0
       THEN /\ mc_pc' = "raised"
            /\ UNCHANGED estimate
       ELSE /\ mc_pc' = "returned"
            /\ estimate' =
                 [at_least_one |-> percentage(at_least_one, num_simulations),
                  at_least_two |-> percentage(at_least_two, num_simulations),
                  at_least_three |-> percentage(at_least_three, num_simulations),
                  exactly_one |-> percentage(exactly_one, num_simulations),
                  exactly_two |-> percentage(exactly_two, num_simulations),
                  exactly_three |-> percentage(exactly_three, num_simulations),
                  four_or_more |-> percentage(four_or_more, num_simulations),
                  zero_streaks |-> percentage(num_simulations - at_least_one,
                                              num_simulations)]
    /\ UNCHANGED <<num_simulations, num_spins, trial, streak_count, bucketVars, streakVars>>
    /\ UNCHANGED <<ratioVars, seedVars, colorStreakVars, switchVars>>
    /\ UNCHANGED <<wheelVars, colorVars, payVars, betVars, pairVars, walkVars, runVars>>

---------------------------------------------------------------------------
(* get_next_color_bet applied again to the tuple it returned, on the same  *)
(* wheel counts                                                            *)

MaxSwitchSpins == 13

MaxApplications == 2

\* bets[0] = get_next_color_bet(spins, bets[0], roulette), no spin in between
ApplySwitch ==
    /\ switch_bets # <<>>
    /\ Len(switch_bets) <= MaxApplications
    /\ switch_bets' = Append(switch_bets,
                             get_next_color_bet(switch_spins,
                                                switch_bets[Len(switch_bets)],
                                                switch_reds, switch_blacks).bet)
    /\ UNCHANGED <<switch_spins, switch_reds, switch_blacks>>
    /\ UNCHANGED <<wheelVars, colorVars, payVars, betVars, pairVars, walkVars, runVars,
                   streakVars, estimateVars, ratioVars, seedVars, colorStreakVars>>

---------------------------------------------------------------------------
(* FrenchRouletteEmulator in random mode: the generator of the random      *)
(* module.  The generator is a deterministic sequence fixed by the seed;   *)
(* its state is the seed and the number of draws made since the seeding.   *)

\* the seeds emulators are constructed with
Seeds == {42, 123}

\* the seeding the generator has when the module is imported
SystemSeed == 0

MaxSeededSpins == 3

\* the two emulator objects
Emulators == {1, 2}

\* random.seed(seed)
random_seed(seed) == [seed |-> seed, draws |-> 0]

\* random.choice(self.NUMBERS): the outcome the generator yields in state g
random_choice(g) ==
    ((g.seed + 5) * (g.draws + 3) + 11 * g.draws * g.draws) % Cardinality(NUMBERS)

\* the generator after a draw
random_advance(g) == [g EXCEPT !.draws = @ + 1]

NoEmulator == [made |-> FALSE, seeded |-> FALSE, seed |-> 0, history |-> <<>>]

\* FrenchRouletteEmulator(seed=seed), or FrenchRouletteEmulator() when
\* seeded is FALSE: a given seed seeds the generator of the random module
Construct(e, seeded, seed) ==
    /\ ~emulators[e].made
    /\ generator' = IF seeded THEN random_seed(seed) ELSE generator
    /\ emulators' = [emulators EXCEPT ![e] = [made |-> TRUE, seeded |-> seeded,
                                              seed |-> IF seeded THEN seed ELSE 0,
                                              history |-> <<>>]]

ConstructEmulator ==
    /\ \E e \in Emulators, seeded \in BOOLEAN, seed \in Seeds :
           Construct(e, seeded, seed)
    /\ UNCHANGED <<wheelVars, colorVars, payVars, betVars, pairVars, walkVars, runVars,
                   streakVars, estimateVars, ratioVars, colorStreakVars, switchVars>>

\* spin() of emulator e, which has no replay sequence
SeededSpin ==
    /\ \E e \in Emulators :
           /\ emulators[e].made
           /\ Len(emulators[e].history) < MaxSeededSpins
           /\ emulators' = [emulators EXCEPT
                                ![e].history = Append(@, random_choice(generator))]
           /\ generator' = random_advance(generator)
    /\ UNCHANGED <<wheelVars, colorVars, payVars, betVars, pairVars, walkVars, runVars,
                   streakVars, estimateVars, ratioVars, colorStreakVars, switchVars>>

---------------------------------------------------------------------------
(* FrenchRouletteEmulator.get_number_of_streak_color.  The color argument  *)
(* is a Python value: a str, or a member of the enumeration BetType.       *)
(* BetType is a plain Enum, so a member is equal to itself only, and a str *)
(* is never equal to a member, whatever the member's value.                *)

MaxHistory == 4

str(value) == [type |-> "str", value |-> value]
BetType(value) == [type |-> "BetType", value |-> value]

NoColor == [type |-> "", value |-> ""]

\* the values the function is called with: the strings the tests pass, and
\* the members the comparison of the function names
ColorArguments == {str("red"), str("black"), BetType("red"), BetType("black")}

\* the loop over reversed(self.history), from the outcome at index i down
RECURSIVE streak_from(_, _, _)
streak_from(h, i, c) ==
    IF i = 0 THEN 0
    ELSE IF \/ (c = BetType("red") /\ h[i] \in RED_NUMBERS)
            \/ (c = BetType("black") /\ h[i] \in BLACK_NUMBERS)
         THEN 1 + streak_from(h, i - 1, c)
         ELSE 0

get_number_of_streak_color(h, c) == streak_from(h, Len(h), c)

\* the histories the function is applied to
Histories == UNION {[1..n -> RunOutcomes] : n \in 0..MaxHistory}

GetNumberOfStreakColor ==
    /\ streak_number = -1
    /\ \E c \in ColorArguments :
           /\ streak_color' = c
           /\ streak_number' = get_number_of_streak_color(history, c)
    /\ UNCHANGED <<wheelVars, colorVars, payVars, betVars, pairVars, walkVars, runVars,
                   streakVars, estimateVars, ratioVars, seedVars, switchVars>>

---------------------------------------------------------------------------
(* Idle components *)

ColorIdle == number = -1 /\ color = "none"

PayoutIdle ==
    /\ bet_type = "none"
    /\ bet_amount = 0
    /\ bet_numbers = {}
    /\ pay_result = 0
    /\ la_partage = TRUE
    /\ pay_called = FALSE
    /\ payout = 0
    /\ pay_error = ""

BetIdle == current_bet = 0 /\ bet_op = "none" /\ new_bet = 0 /\ bet_error = ""

WheelIdle == EmulatorInit(<<>>)

PairIdle == second_bet = 0 /\ second_new_bet = 0

WalkIdle == start_bet = 0 /\ loss_steps = 0 /\ win_steps = 0

\* no run: the source's configuration and empty accumulators
RunIdle ==
    /\ STARTING_BANKROLL = 1000000
    /\ STARTING_BET = 1200
    /\ SPINS_PER_SIMULATION = 120
    /\ MIN_BET = 200
    /\ MAX_BET = 8000
    /\ sim_num = 0
    /\ run_numbers = <<>>
    /\ first_number = 0
    /\ pc = "idle"
    /\ bankroll = 0
    /\ float_excess = 0
    /\ current_bet_amount = 0
    /\ new_bet_amount = 0
    /\ spins_completed = 0
    /\ stop_reason = ""
    /\ first_time = TRUE
    /\ win_count = 0
    /\ loss_count = 0
    /\ bets = <<>>
    /\ spin_index = 0
    /\ profit = 0
    /\ run_error = ""
    /\ bankruptcies = 0
    /\ max_bet_reached = 0
    /\ min_bet_reached = 0
    /\ completed_all_spins = 0
    /\ sim_switch_track = <<>>
    /\ sim_win_track = <<>>
    /\ results = <<>>

StreakIdle == trial_spins = <<>> /\ streak_length = 0 /\ count = -1

EstimateIdle ==
    /\ num_simulations = 0
    /\ num_spins = 0
    /\ mc_pc = "idle"
    /\ trial = 0
    /\ streak_count = -1
    /\ at_least_one = 0
    /\ at_least_two = 0
    /\ at_least_three = 0
    /\ exactly_one = 0
    /\ exactly_two = 0
    /\ exactly_three = 0
    /\ four_or_more = 0
    /\ estimate = NoEstimate

\* no ratio asked of the emulator yet
NoRatio == [error |-> "", inf |-> FALSE, num |-> -1, den |-> -1]

RatioIdle == red_black_ratio = NoRatio /\ black_red_ratio = NoRatio

SeedIdle ==
    /\ generator = random_seed(SystemSeed)
    /\ emulators = [e \in Emulators |-> NoEmulator]

ColorStreakIdle == streak_color = NoColor /\ streak_number = -1

SwitchIdle ==
    /\ switch_spins = 0
    /\ switch_reds = 0
    /\ switch_blacks = 0
    /\ switch_bets = <<>>

SideIdle ==
    /\ StreakIdle
    /\ EstimateIdle
    /\ RatioIdle
    /\ SeedIdle
    /\ ColorStreakIdle
    /\ SwitchIdle

RestIdle == PairIdle /\ WalkIdle /\ RunIdle /\ SideIdle

---------------------------------------------------------------------------
(* Specifications *)

\* the wheel: an emulator in replay mode or in random mode, its spins and the
\* classification of their outcomes
Init ==
    /\ \E numbers \in ReplaySequences \cup {<<>>} : EmulatorInit(numbers)
    /\ ColorIdle
    /\ PayoutIdle
    /\ BetIdle
    /\ RestIdle

Next ==
    \/ spin
    \/ GetColor
    \/ GetRedBlackRatio
    \/ GetBlackRedRatio

Spec == Init /\ [][Next]_vars

\* the payout calculator
InitPayout ==
    /\ WheelIdle
    /\ ColorIdle
    /\ BetIdle
    /\ RestIdle
    /\ PayoutArguments
    /\ pay_called = FALSE
    /\ payout = 0
    /\ pay_error = ""

NextPayout == CalculatePayout

SpecPayout == InitPayout /\ [][NextPayout]_vars

\* the bet-size step functions
InitBet ==
    /\ WheelIdle
    /\ ColorIdle
    /\ PayoutIdle
    /\ RestIdle
    /\ current_bet \in BetInputs
    /\ bet_op = "none"
    /\ new_bet = 0
    /\ bet_error = ""

NextBet ==
    \/ BetIncrease
    \/ BetDecrease
    \/ BetStep

SpecBet == InitBet /\ [][NextBet]_vars

\* get_bet_increase on two magnitudes of the table, the second the larger
InitPair ==
    /\ WheelIdle
    /\ ColorIdle
    /\ PayoutIdle
    /\ WalkIdle
    /\ RunIdle
    /\ SideIdle
    /\ current_bet \in {x \in BetInputs : InTable(x)}
    /\ second_bet \in LargerBets(current_bet)
    /\ bet_op = "none"
    /\ new_bet = 0
    /\ bet_error = ""
    /\ second_new_bet = 0

NextPair == IncreaseBoth

SpecPair == InitPair /\ [][NextPair]_vars

\* sequences of losses and wins from a bet on the grid of the table
InitWalk ==
    /\ WheelIdle
    /\ ColorIdle
    /\ PayoutIdle
    /\ PairIdle
    /\ RunIdle
    /\ SideIdle
    /\ start_bet \in GridPoints
    /\ current_bet = start_bet
    /\ bet_op = "none"
    /\ new_bet = 0
    /\ bet_error = ""
    /\ loss_steps = 0
    /\ win_steps = 0

NextWalk ==
    \/ WalkLoss
    \/ WalkWin

SpecWalk == InitWalk /\ [][NextWalk]_vars

\* one run of run_simulation: a fresh emulator in random mode, the first bet
\* on the colour of the first random number, empty accumulators
InitRun ==
    /\ WheelIdle
    /\ PayoutIdle
    /\ BetIdle
    /\ PairIdle
    /\ WalkIdle
    /\ SideIdle
    /\ \E c \in Configurations :
        /\ STARTING_BANKROLL = c.bankroll
        /\ STARTING_BET = c.start
        /\ SPINS_PER_SIMULATION = c.spins
        /\ MIN_BET = c.min
        /\ MAX_BET = c.max
    /\ sim_num = 0
    /\ run_numbers \in RunNumberLists
    /\ first_number = run_numbers[1]
    /\ number = first_number
    /\ color = get_color(first_number)
    /\ pc = "loop"
    /\ RunStart
    /\ bankruptcies = 0
    /\ max_bet_reached = 0
    /\ min_bet_reached = 0
    /\ completed_all_spins = 0
    /\ sim_switch_track = <<>>
    /\ sim_win_track = <<>>
    /\ results = <<>>

NextRun ==
    \/ StopBankruptcy
    \/ StopEndProfit
    \/ StopExtProfit
    \/ StopEqualRedBlack
    \/ PlaySpin
    \/ RecordRun

SpecRun == InitRun /\ [][NextRun]_vars

InitRunLive ==
    /\ WheelIdle
    /\ PayoutIdle
    /\ BetIdle
    /\ PairIdle
    /\ WalkIdle
    /\ SideIdle
    /\ \E c \in LiveConfigurations :
        /\ STARTING_BANKROLL = c.bankroll
        /\ STARTING_BET = c.start
        /\ SPINS_PER_SIMULATION = c.spins
        /\ MIN_BET = c.min
        /\ MAX_BET = c.max
    /\ sim_num = 0
    /\ run_numbers \in RunNumberLists
    /\ first_number = run_numbers[1]
    /\ number = first_number
    /\ color = get_color(first_number)
    /\ pc = "loop"
    /\ RunStart
    /\ bankruptcies = 0
    /\ max_bet_reached = 0
    /\ min_bet_reached = 0
    /\ completed_all_spins = 0
    /\ sim_switch_track = <<>>
    /\ sim_win_track = <<>>
    /\ results = <<>>

NextRunLive ==
    \/ StopBankruptcy
    \/ StopEndProfit
    \/ StopExtProfit
    \/ StopEqualRedBlack
    \/ PlaySpinUnrecorded
    \/ RecordRun

\* run_simulation runs on its own: a step that can be taken is taken
SpecRunLive == InitRunLive /\ [][NextRunLive]_vars /\ WF_vars(NextRunLive)

\* the loop body up to MaxDeepSpins spins
PlaySpinDeep == spin_index < MaxDeepSpins /\ PlaySpinUnrecorded

NextRunDeep ==
    \/ StopBankruptcy
    \/ StopEndProfit
    \/ StopExtProfit
    \/ StopEqualRedBlack
    \/ PlaySpinDeep
    \/ RecordRun

SpecRunDeep == InitRun /\ [][NextRunDeep]_vars

\* count_streaks on a sequence of outcomes and a streak length
InitStreak ==
    /\ WheelIdle
    /\ ColorIdle
    /\ PayoutIdle
    /\ BetIdle
    /\ PairIdle
    /\ WalkIdle
    /\ RunIdle
    /\ trial_spins \in SpinSequences(MaxTrialSpins)
    /\ streak_length \in 1..MaxStreakLength
    /\ count = -1
    /\ EstimateIdle
    /\ RatioIdle
    /\ SeedIdle
    /\ ColorStreakIdle
    /\ SwitchIdle

NextStreak == CountStreaks

SpecStreak == InitStreak /\ [][NextStreak]_vars

\* run_simulation(num_simulations, num_spins, streak_length) of monte_carlo.py
InitEstimate ==
    /\ WheelIdle
    /\ ColorIdle
    /\ PayoutIdle
    /\ BetIdle
    /\ PairIdle
    /\ WalkIdle
    /\ RunIdle
    /\ num_simulations \in 0..MaxTrials
    /\ num_spins \in 0..MaxEstimateSpins
    /\ streak_length \in 1..MaxStreakLength
    /\ trial_spins = <<>>
    /\ count = -1
    /\ mc_pc = "trials"
    /\ trial = 0
    /\ streak_count = -1
    /\ at_least_one = 0
    /\ at_least_two = 0
    /\ at_least_three = 0
    /\ exactly_one = 0
    /\ exactly_two = 0
    /\ exactly_three = 0
    /\ four_or_more = 0
    /\ estimate = NoEstimate
    /\ RatioIdle
    /\ SeedIdle
    /\ ColorStreakIdle
    /\ SwitchIdle

NextEstimate ==
    \/ RunTrial
    \/ ReturnEstimate

SpecEstimate == InitEstimate /\ [][NextEstimate]_vars

InitSeed ==
    /\ WheelIdle
    /\ ColorIdle
    /\ PayoutIdle
    /\ BetIdle
    /\ PairIdle
    /\ WalkIdle
    /\ RunIdle
    /\ StreakIdle
    /\ EstimateIdle
    /\ RatioIdle
    /\ SeedIdle
    /\ ColorStreakIdle
    /\ SwitchIdle

NextSeed == ConstructEmulator \/ SeededSpin

SpecSeed == InitSeed /\ [][NextSeed]_vars

\* an emulator in random mode after the spins of a history
InitColorStreak ==
    /\ \E h \in Histories :
           /\ history = h
           /\ spin_count = Len(h) + 1
           /\ result = IF h = <<>> THEN -1 ELSE h[Len(h)]
    /\ red_count = 0
    /\ black_count = 0
    /\ zero_count = 0
    /\ random_numbers = <<>>
    /\ random_index = 0
    /\ ColorIdle
    /\ PayoutIdle
    /\ BetIdle
    /\ PairIdle
    /\ WalkIdle
    /\ RunIdle
    /\ StreakIdle
    /\ EstimateIdle
    /\ RatioIdle
    /\ SeedIdle
    /\ ColorStreakIdle
    /\ SwitchIdle

NextColorStreak == GetNumberOfStreakColor

SpecColorStreak == InitColorStreak /\ [][NextColorStreak]_vars

\* the counts of a wheel after spins spins: the reds and the blacks are at
\* most the spins, the rest are zeros
InitSwitch ==
    /\ WheelIdle
    /\ ColorIdle
    /\ PayoutIdle
    /\ BetIdle
    /\ PairIdle
    /\ WalkIdle
    /\ RunIdle
    /\ StreakIdle
    /\ EstimateIdle
    /\ RatioIdle
    /\ SeedIdle
    /\ ColorStreakIdle
    /\ switch_spins \in 0..MaxSwitchSpins
    /\ switch_reds \in 0..switch_spins
    /\ switch_blacks \in 0..(switch_spins - switch_reds)
    /\ \E t \in {"red", "black"} :
           switch_bets = << [bet_type |-> t, bet_amount |-> 1200, bet_numbers |-> {}] >>

NextSwitch == ApplySwitch

SpecSwitch == InitSwitch /\ [][NextSwitch]_vars

---------------------------------------------------------------------------
(* Claims about the wheel, under Spec *)

\* C1: with a non-empty replay sequence of length L, the (i+1)-th call of spin
\* returns sequence[i mod L] for every i >= 0: the first spin returns the first
\* element and after L spins the sequence repeats from its first element.
\* (history[k] is the outcome of the k-th call; TLA+ sequences count from 1.)
C1_ReplayFromFirstElement ==
    Len(random_numbers) > 0 =>
        \A k \in 1..Len(history) :
            history[k] = random_numbers[((k - 1) % Len(random_numbers)) + 1]

\* C2: every call of spin appends exactly the outcome it returns to the end of
\* history and increases the spin counter by exactly 1; history only grows at
\* its end, so every earlier history is a prefix of every later one.
C2_SpinAppendsAndCounts ==
    [][/\ history' = Append(history, result')
       /\ spin_count' = spin_count + 1]_wheelVars

\* C2 witness: several spins have been made, the last returned outcome is the
\* last entry of history
C2_Witness ==
    /\ Len(history) >= 3
    /\ result = history[Len(history)]
    /\ history[1] # history[2]

\* C3: after n calls of spin on a freshly constructed emulator the spin counter
\* equals n, the number of spins performed and the length of history
\* (1 after the first spin, 5 after the fifth).
C3_SpinCountIsNumberOfSpins ==
    Len(history) >= 1 => get_spin_count = Len(history)

\* C4: for every outcome in 0..36 get_color gives exactly one of red, black,
\* green; the red set and the black set are disjoint, each has 18 members,
\* neither holds 0, their union is 1..36, and 0 is the only green outcome.
C4_ColorsPartitionTheWheel ==
    /\ color # "none" =>
        /\ color \in {"red", "black", "green"}
        /\ (color = "green") <=> (number = 0)
        /\ (color = "red") <=> (number \in RED_NUMBERS)
        /\ (color = "black") <=> (number \in BLACK_NUMBERS)
    /\ RED_NUMBERS \cap BLACK_NUMBERS = {}
    /\ Cardinality(RED_NUMBERS) = 18
    /\ Cardinality(BLACK_NUMBERS) = 18
    /\ 0 \notin RED_NUMBERS \cup BLACK_NUMBERS
    /\ RED_NUMBERS \cup BLACK_NUMBERS = 1..36

\* C4 witness: a spin came up zero and was classified green
C4_Witness == number = 0 /\ color = "green" /\ Len(history) >= 1

---------------------------------------------------------------------------
(* Claims about the payout calculator, under SpecPayout *)

\* the six even-money bet categories, as the claims list them
EvenMoneyCategories == {"red", "black", "even", "odd", "low", "high"}

\* C5: for each of the six even-money categories, any stake and outcome 0,
\* calculate_payout returns -stake/2 with the half-loss rule enabled and
\* -stake with it disabled.
C5_HalfLossOnZero ==
    (pay_called /\ pay_result = 0 /\ bet_type \in EvenMoneyCategories) =>
        /\ pay_error = ""
        /\ IF la_partage THEN 2 * payout = 0 - bet_amount
                         ELSE payout = 0 - bet_amount

\* C5 witness: 1.20 on high, zero comes up, the rule is on: half the stake is lost
C5_Witness ==
    /\ pay_called
    /\ bet_type = "high"
    /\ pay_result = 0
    /\ la_partage
    /\ bet_amount = 1200
    /\ payout = 0 - 600

\* the winning condition of each category, as C6 states it: the target numbers
\* for inside bets, a fixed set of non-zero numbers for each outside bet
WinningNumbers(t, nums) ==
    CASE t \in {"straight", "split", "street", "corner", "line"} -> nums
      [] t = "red" -> RED_NUMBERS
      [] t = "black" -> BLACK_NUMBERS
      [] t = "even" -> {2 * k : k \in 1..18}
      [] t = "odd" -> {2 * k - 1 : k \in 1..18}
      [] t = "low" -> 1..18
      [] t = "high" -> 19..36
      [] t = "dozen_1" -> 1..12
      [] t = "dozen_2" -> 13..24
      [] t = "dozen_3" -> 25..36
      [] t = "column_1" -> {3 * k - 2 : k \in 1..12}
      [] t = "column_2" -> {3 * k - 1 : k \in 1..12}
      [] t = "column_3" -> {3 * k : k \in 1..12}

\* the multiplier of each category, as C6 states it
Multiplier(t) ==
    CASE t = "straight" -> 36
      [] t = "split" -> 18
      [] t = "street" -> 12
      [] t = "corner" -> 9
      [] t = "line" -> 6
      [] t \in EvenMoneyCategories -> 2
      [] t \in {"dozen_1", "dozen_2", "dozen_3",
                "column_1", "column_2", "column_3"} -> 3

\* C6: for each of the 17 bet categories, every stake and every outcome outside
\* the half-loss case, calculate_payout returns stake * (multiplier - 1) when
\* the outcome satisfies the category's winning condition and -stake otherwise,
\* and it never raises.
C6_PayoutByCategory ==
    (/\ pay_called
     /\ bet_type \in BetTypes \ {"green"}
     /\ ~(pay_result = 0 /\ bet_type \in EvenMoneyCategories /\ la_partage)) =>
        /\ pay_error = ""
        /\ payout = IF pay_result \in WinningNumbers(bet_type, bet_numbers)
                    THEN bet_amount * (Multiplier(bet_type) - 1)
                    ELSE 0 - bet_amount

\* C6 witness: a straight bet of 1.20 on 17 wins 35 times the stake
C6_Witness ==
    /\ pay_called
    /\ bet_type = "straight"
    /\ bet_numbers = {17}
    /\ pay_result = 17
    /\ bet_amount = 1200
    /\ payout = 42000

---------------------------------------------------------------------------
(* Claims about the bet-size step functions, under SpecBet *)

\* the rows of the adjustment table
Ranges == 1..Len(ADJUSTMENT_TABLE)

RangeMin(i) == ADJUSTMENT_TABLE[i][1]

RangeMax(i) == ADJUSTMENT_TABLE[i][2]

RangeStep(i) == ADJUSTMENT_TABLE[i][3]

\* got is exact, a whole number of cents, at most half a cent from exact
AtCentPrecision(got, exact) ==
    /\ got % 10 = 0
    /\ got - exact <= 5
    /\ exact - got <= 5

\* C7: for every bet magnitude inside some range of the adjustment table
\* (min <= current <= max, both bounds included) get_bet_increase returns
\* current plus that range's step, at cent precision.
C7_IncreaseAddsRangeStep ==
    bet_op = "increase" =>
        \A i \in Ranges :
            (RangeMin(i) <= current_bet /\ current_bet <= RangeMax(i)) =>
                /\ bet_error = ""
                /\ AtCentPrecision(new_bet, current_bet + RangeStep(i))

\* C7 witness: 0.90, the upper bound of the first range, becomes 1.00
C7_Witness ==
    bet_op = "increase" /\ current_bet = 900 /\ bet_error = "" /\ new_bet = 1000

\* C8: get_bet_decrease is asymmetric at range boundaries: at a range's lower
\* bound exactly it subtracts the previous range's step, and for the lowest
\* range its own step (0.20 becomes 0.10); strictly above a range's lower
\* bound and at most its upper bound it subtracts the range's own step.
\* E.g. 1.00 becomes 0.90, 1.40 becomes 1.20, 1.80 becomes 1.60.
C8_DecreaseIsAsymmetric ==
    bet_op = "decrease" =>
        /\ \A i \in Ranges :
            /\ current_bet = RangeMin(i) =>
                /\ bet_error = ""
                /\ new_bet = current_bet - (IF i > 1 THEN RangeStep(i - 1) ELSE RangeStep(i))
            /\ (RangeMin(i) < current_bet /\ current_bet <= RangeMax(i)) =>
                /\ bet_error = ""
                /\ AtCentPrecision(new_bet, current_bet - RangeStep(i))
        /\ current_bet = 200 => new_bet = 100
        /\ current_bet = 1000 => new_bet = 900
        /\ current_bet = 1400 => new_bet = 1200
        /\ current_bet = 1800 => new_bet = 1600

\* C8 witness: 1.00, the lower bound of the second range, becomes 0.90
C8_Witness ==
    bet_op = "decrease" /\ current_bet = 1000 /\ bet_error = "" /\ new_bet = 900

\* current lies below the lowest range, above the highest, or in a gap
\* between two consecutive ranges
OutOfTable(current) ==
    \/ current < RangeMin(1)
    \/ current > RangeMax(Len(ADJUSTMENT_TABLE))
    \/ \E i \in Ranges \ {Len(ADJUSTMENT_TABLE)} :
           RangeMax(i) < current /\ current < RangeMin(i + 1)

\* C9: for every bet magnitude strictly below the lowest range's minimum
\* (zero and negative values too), strictly above the highest range's maximum,
\* or inside a gap between two consecutive ranges, both get_bet_increase and
\* get_bet_decrease fail with an out-of-range error instead of returning.
C9_OutOfTableRaises ==
    (bet_op \in {"increase", "decrease"} /\ OutOfTable(current_bet)) =>
        bet_error = "ValueError"

\* C9 witness: a decrease from 0.95, in the gap between the first two ranges
C9_Witness ==
    bet_op = "decrease" /\ current_bet = 950 /\ bet_error = "ValueError"

\* C10: the adjustment table has exactly six ranges, so a bet magnitude above
\* the sixth range (25.00) is out of the table: get_next_bet_adjustment(25.00)
\* and get_bet_decrease(25.00) both fail with an out-of-range error.
C10_SixRangesAnd25IsOut ==
    (bet_op \in {"increase", "decrease"} /\ current_bet = 25000) =>
        /\ Len(ADJUSTMENT_TABLE) = 6
        /\ bet_error = "ValueError"

\* the lowest range's minimum and the highest range's maximum
TableMin == RangeMin(1)

TableMax == RangeMax(Len(ADJUSTMENT_TABLE))

\* C31: increase and decrease do not validate their result against the
\* table: for every in-table input they return a value without error, also
\* when the value is outside the table (get_bet_increase at the highest
\* range's maximum returns a value above the table, get_bet_decrease at the
\* lowest range's minimum a value below it); the error appears on the next
\* step, increase or decrease, taken from such a value.
C31_ResultNotValidated ==
    /\ (bet_op \in {"increase", "decrease"} /\ InTable(current_bet)) =>
           /\ bet_error = ""
           /\ ~InTable(new_bet) =>
                  /\ get_bet_increase(new_bet).error = "ValueError"
                  /\ get_bet_decrease(new_bet).error = "ValueError"
    /\ (bet_op = "increase" /\ current_bet = TableMax) => new_bet > TableMax
    /\ (bet_op = "decrease" /\ current_bet = TableMin) => new_bet < TableMin
    /\ (bet_op \in {"increase", "decrease"} /\ ~InTable(current_bet)) =>
           bet_error = "ValueError"

\* C31 witness: 0.20, the lowest range's minimum, is decreased to 0.10, a
\* value below the table, without error
C31_Witness ==
    /\ bet_op = "decrease"
    /\ current_bet = TableMin
    /\ bet_error = ""
    /\ new_bet = 100
    /\ ~InTable(new_bet)

---------------------------------------------------------------------------
(* Claims about two magnitudes, under SpecPair, and about sequences of      *)
(* losses and wins, under SpecWalk                                          *)

\* the steps of the table never decrease from one range to the next, and
\* every range has min < max
TableIsOrdered ==
    /\ \A i \in Ranges : RangeMin(i) < RangeMax(i)
    /\ \A i \in Ranges \ {1} : RangeStep(i - 1) <= RangeStep(i)

C12_EqualLossesAndWinsReturn ==
    loss_steps = win_steps => current_bet = start_bet

\* C12 witness: from 0.90 a loss crosses to 1.00 and the win that follows
\* returns to 0.90
C12_Witness ==
    /\ start_bet = 900
    /\ loss_steps = 1
    /\ win_steps = 1
    /\ bet_op = "decrease"
    /\ current_bet = 900

---------------------------------------------------------------------------
(* Claims about a run of the simulation, under SpecRun *)

\* a step of the run that spins the wheel
SpinPlayed == pc = "loop" /\ history' # history

\* the four conditions of the stop checks, as the code compares its values
BankruptcyHolds == bankroll_below(current_bet_amount)

EndProfitHolds ==
    spin_index >= SPINS_PER_SIMULATION /\ bankroll_above(STARTING_BANKROLL + 6000)

ExtProfitHolds ==
    spin_index >= SPINS_PER_SIMULATION /\ win_count > loss_count

EqualRedBlackHolds ==
    spin_index >= 12 /\ red_count = black_count /\ bankroll_above(STARTING_BANKROLL)

\* the step sets the stop reason and places no bet: no spin, no payout
StopsBeforeBet(reason) ==
    /\ stop_reason' = reason
    /\ history' = history
    /\ spins_completed' = spins_completed
    /\ bankroll' = bankroll
    /\ win_count' = win_count
    /\ loss_count' = loss_count

C14_StopReasonImpliesCondition ==
    /\ stop_reason = "bankruptcy" => BankruptcyHolds
    /\ stop_reason = "end_stop_profit" => EndProfitHolds
    /\ stop_reason = "ext_stop_profit" => ExtProfitHolds
    /\ stop_reason = "equal_red_black_stop" => EqualRedBlackHolds

\* C14 witness: a run of the source's configuration stopped with
\* equal_red_black_stop after 12 spins
C14_Witness ==
    /\ stop_reason = "equal_red_black_stop"
    /\ STARTING_BET = 1200
    /\ spin_index = 12
    /\ red_count = black_count

\* C15: a run whose starting bet exceeds its starting bankroll stops with
\* bankruptcy before the first spin: every step of such a run leaves it with
\* that reason, zero spins completed, no outcome drawn, the bankroll
\* unchanged and zero wins and losses.
C15_BankruptBeforeFirstSpin ==
    [][STARTING_BET > STARTING_BANKROLL =>
        /\ stop_reason' = "bankruptcy"
        /\ spins_completed' = 0
        /\ history' = <<>>
        /\ result' = -1
        /\ bankroll' = STARTING_BANKROLL
        /\ win_count' = 0
        /\ loss_count' = 0
    ]_vars

\* C15 witness: such a run, stopped and recorded
C15_Witness ==
    /\ STARTING_BET > STARTING_BANKROLL
    /\ pc = "done"
    /\ stop_reason = "bankruptcy"
    /\ spins_completed = 0

\* C16 as stated: when the loop reaches the spin budget and no stop condition
\* holds, the run ends in the terminal state completed.
C16_BudgetReachedCompletes ==
    [][(/\ pc = "loop"
        /\ spin_index >= SPINS_PER_SIMULATION
        /\ ~BankruptcyHolds /\ ~EndProfitHolds /\ ~ExtProfitHolds /\ ~EqualRedBlackHolds)
        => stop_reason' = "completed"
    ]_vars

\* C17 as stated: a run never completes more spins than the spin budget.
C17_SpinsWithinBudget ==
    spins_completed <= SPINS_PER_SIMULATION

\* the other colour of an even-money colour bet
OtherColor(c) == IF c = "red" THEN "black" ELSE "red"

\* the spin is won and the decreased bet is at or below the minimum
FloorReached ==
    profit' > 0 /\ round2(get_bet_decrease(current_bet_amount).value) <= MIN_BET

\* C18 as stated: on a winning spin whose decreased bet is <= the minimum, on
\* one of the first 11 spins the run stays running with the colour flipped
\* and the stake reset to the starting bet, on the 12th spin or later the run
\* stops with min_bet; min_bet is never reached after a losing spin.
C18_FloorBeforeAndFromSpin12 ==
    [][SpinPlayed =>
        /\ (FloorReached /\ spins_completed' <= 11) =>
                /\ stop_reason' = ""
                /\ bets'[1].bet_type = OtherColor(bets[1].bet_type)
                /\ bets'[1].bet_amount = STARTING_BET
                /\ current_bet_amount' = STARTING_BET
        /\ (FloorReached /\ spins_completed' >= 12) => stop_reason' = "min_bet"
        /\ stop_reason' = "min_bet" => profit' > 0
    ]_vars

\* C19: on a losing spin whose increased bet is >= the maximum the bet is
\* clamped to the maximum and the run stops with max_bet; max_bet is never
\* reached after a winning spin, and every bet placed is below the maximum.
C19_MaxBetClampsAndStops ==
    [][SpinPlayed =>
        /\ bets[1].bet_amount < MAX_BET
        /\ (profit' <= 0 /\ get_bet_increase(current_bet_amount).value >= MAX_BET) =>
                /\ current_bet_amount' = MAX_BET
                /\ stop_reason' = "max_bet"
        /\ stop_reason' = "max_bet" => profit' <= 0
    ]_vars

\* C19 witness: an increase to 1.60 under a maximum of 1.50, clamped to 1.50
C19_Witness ==
    /\ stop_reason = "max_bet"
    /\ new_bet_amount > MAX_BET
    /\ current_bet_amount = MAX_BET
    /\ profit < 0

\* the count a colour has after the spin
CountAfter(c) == IF c = "red" THEN red_count' ELSE black_count'

\* C20 as stated: after a spin that does not stop the run, from 12 spins on
\* the target colour is flipped exactly when the ratio of the non-target
\* colour's count to the target colour's count is >= 1.5, and the flipped
\* bet keeps the stake; before 12 spins or below the ratio it is unchanged.
\* (Read for the spins without an early-floor switch.)
C20_SwitchToDominantColour ==
    [][(SpinPlayed /\ pc' = "loop" /\ ~FloorReached) =>
        LET target == bets[1].bet_type
            reached == \/ CountAfter(target) = 0
                       \/ 10 * CountAfter(OtherColor(target))
                            >= SWITCH_RATIO_TENTHS * CountAfter(target)
            flipped == bets'[1].bet_type # target
        IN  /\ flipped <=> (spin_index' >= 12 /\ reached)
            /\ flipped => bets'[1].bet_amount = current_bet_amount'
    ]_vars

\* C20 as amended: after a spin that does not stop the run, from 12 spins on
\* the target colour is flipped exactly when the ratio of the target
\* colour's count to the non-target colour's count is >= 1.5 (infinite when
\* the non-target count is 0): the run leaves the colour that came up more
\* often.  The bet keeps the current stake; before 12 spins or below the
\* ratio the target is unchanged.  The target is the colour the spin's
\* early-floor switch, if there was one, left.
C20_SwitchFromDominantColour ==
    [][(SpinPlayed /\ pc' = "loop") =>
        LET target == IF FloorReached THEN OtherColor(bets[1].bet_type)
                      ELSE bets[1].bet_type
            reached == \/ CountAfter(OtherColor(target)) = 0
                       \/ 10 * CountAfter(target)
                            >= SWITCH_RATIO_TENTHS * CountAfter(OtherColor(target))
            flipped == bets'[1].bet_type # target
        IN  /\ flipped <=> (spin_index' >= 12 /\ reached)
            /\ bets'[1].bet_amount = current_bet_amount'
    ]_vars

\* C20 witness: a run of the source's configuration that bet on red for 12
\* spins, saw 8 reds and 4 blacks, and bets on black next with the same stake
C20_Witness ==
    /\ pc = "loop"
    /\ STARTING_BET = 1200
    /\ first_number = 1
    /\ spin_index = 12
    /\ red_count = 8
    /\ black_count = 4
    /\ sim_switch_track = <<1>>
    /\ bets[1].bet_type = "black"
    /\ bets[1].bet_amount = current_bet_amount

\* the stake the bet adjustment of the spin gives the next bet: the decreased
\* bet after a win, the increased bet after a loss
AdjustedStake ==
    IF profit' > 0 THEN get_bet_decrease(current_bet_amount).value
    ELSE get_bet_increase(current_bet_amount).value

\* C21: a spin during which the early-floor switch or the dominance switch
\* acted (the run's number was appended to sim_switch_track) is still one
\* spin: the spin counter and the completed spins advance by one, the wheel's
\* history gains the one outcome and its colour counts one unit, the bankroll
\* moves by the payout of the one bet placed before the spin, and one win or
\* loss is counted.  The switch leaves the run running with a single bet on
\* the other or the same colour; its stake is the starting bet after an
\* early-floor switch and the adjusted stake otherwise.
C21_SwitchesOnlyRetargetNextBet ==
    [][(SpinPlayed /\ sim_switch_track' # sim_switch_track) =>
        /\ spin_index' = spin_index + 1
        /\ spins_completed' = spins_completed + 1
        /\ history' = Append(history, result')
        /\ spin_count' = spin_count + 1
        /\ red_count' + black_count' + zero_count'
               = red_count + black_count + zero_count + 1
        /\ bankroll' = bankroll + total_payout_from(1, bets, result')
        /\ win_count' + loss_count' = win_count + loss_count + 1
        /\ stop_reason' = ""
        /\ Len(bets') = 1
        /\ bets'[1].bet_type \in {"red", "black"}
        /\ bets'[1].bet_numbers = {}
        /\ bets'[1].bet_amount = IF FloorReached THEN STARTING_BET ELSE AdjustedStake
    ]_vars

\* C21 witness: a run that switched colour by dominance after its 12th spin
\* with a stake other than the starting bet, 12 outcomes in the history
C21_Witness ==
    /\ pc = "loop"
    /\ spin_index = 12
    /\ Len(history) = 12
    /\ red_count + black_count + zero_count = 12
    /\ win_count + loss_count = 12
    /\ sim_switch_track # <<>>
    /\ bets[1].bet_type # get_color(first_number)
    /\ bets[1].bet_amount # STARTING_BET

\* C24 as stated: when the bet-size step function raises a range error
\* during a run, the run is recorded as failed or aborted in the results.
C24_RangeErrorRecorded ==
    run_error = "ValueError" =>
        /\ results # <<>>
        /\ results[Len(results)].stop_reason \in {"failed", "aborted"}

\* C26 as stated: the accumulators shared by the runs (the results, the stop
\* counters, the switch track and the win track) are written only once the
\* run has reached a terminal state: a step that leaves the run running
\* leaves every accumulator unchanged.
C26_AccumulatorsAfterTerminal ==
    [][(pc = "loop" /\ pc' = "loop" /\ stop_reason' = "") => UNCHANGED trackVars]_vars

\* the bet step of the spin returned: no range error was raised
StepReturned == pc' # "raised"

\* the early-floor switch of a win put the next bet back to STARTING_BET
EarlyFloorSwitch ==
    /\ profit' > 0
    /\ round2(get_bet_decrease(current_bet_amount).value) <= MIN_BET
    /\ ~min_bet_reached_switch_color(spin_index, bets[1].bet_type, STARTING_BET).none

\* C33: in a run a zero outcome is handled as a loss at half price: the
\* bankroll decreases by exactly half the stake, the loss count (not the win
\* count) increases by 1 and the next bet magnitude is the increase of the
\* current one; a spin counts as a win, and decreases the bet, only when its
\* payout is strictly positive.  (Stated for the spins whose bet step
\* returns.)
C33_ZeroIsHalfPriceLoss ==
    [][SpinPlayed =>
        /\ result' = 0 =>
               /\ 2 * (bankroll - bankroll') = bets[1].bet_amount
               /\ profit' < 0
        /\ StepReturned =>
               /\ result' = 0 =>
                      /\ loss_count' = loss_count + 1
                      /\ win_count' = win_count
                      /\ new_bet_amount' = get_bet_increase(current_bet_amount).value
               /\ win_count' = win_count + 1 <=> profit' > 0
               /\ win_count' = win_count <=> profit' <= 0
               /\ loss_count' = loss_count + 1 <=> profit' <= 0
               /\ win_count' + loss_count' = win_count + loss_count + 1
               /\ new_bet_amount' = get_bet_decrease(current_bet_amount).value
                      => profit' > 0
               /\ profit' > 0 =>
                      new_bet_amount' = IF EarlyFloorSwitch THEN STARTING_BET
                                        ELSE get_bet_decrease(current_bet_amount).value
               /\ profit' <= 0 =>
                      new_bet_amount' = get_bet_increase(current_bet_amount).value]_vars

\* C33 witness: the first spin of the shipped configuration is a zero: half
\* of 1.20 is lost, the loss is counted and the next bet is 1.40
C33_Witness ==
    /\ history = <<0>>
    /\ STARTING_BET = 1200
    /\ bankroll = STARTING_BANKROLL - 600
    /\ loss_count = 1
    /\ win_count = 0
    /\ new_bet_amount = 1400
    /\ pc = "loop"

\* the terminal states of a run
TerminalStates ==
    {"bankruptcy", "min_bet", "max_bet", "equal_red_black_stop",
     "end_stop_profit", "ext_stop_profit", "completed"}

\* C34: a run's state is frozen at stop: once a stop reason is set no
\* further spin is played and the bankroll, the win count, the loss count,
\* the spins completed and the wheel history never change again; a run
\* records exactly one stop reason, one of the defined terminal states.
C34_FrozenAtStop ==
    /\ [][stop_reason # "" =>
            /\ stop_reason' = stop_reason
            /\ UNCHANGED <<bankroll, win_count, loss_count, spins_completed,
                           history, spin_count, red_count, black_count, zero_count>>]_vars
    /\ [](/\ stop_reason # "" <=> pc \in {"stopped", "done"}
          /\ stop_reason # "" => stop_reason \in TerminalStates
          /\ pc # "done" => results = <<>>
          /\ pc = "done" =>
                 /\ Len(results) = 1
                 /\ results[1].stop_reason = stop_reason
                 /\ results[1].stop_reason \in TerminalStates
                 /\ results[1].final_bankroll = bankroll
                 /\ results[1].win_count = win_count
                 /\ results[1].loss_count = loss_count
                 /\ results[1].spins_completed = spins_completed
                 /\ spins_completed = Len(history))

\* C34 witness: a run stopped by max_bet after a spin and was recorded
C34_Witness ==
    /\ pc = "done"
    /\ stop_reason = "max_bet"
    /\ Len(history) > 0
    /\ Len(results) = 1
    /\ results[1].stop_reason = "max_bet"

RoundPlayed == pc = "loop" /\ spins_completed' = spins_completed + 1

\* C36: the bankroll is never negative in a reachable state of a run: a bet
\* is placed only when the bankroll is at least the current bet magnitude,
\* and a single spin loses at most the stake.
C36_BankrollNeverNegative ==
    /\ [](bankroll >= 0)
    /\ [][RoundPlayed =>
            /\ ~bankroll_below(current_bet_amount)
            /\ bankroll >= current_bet_amount
            /\ Len(bets) = 1
            /\ bets[1].bet_amount <= current_bet_amount
            /\ bankroll' >= bankroll - bets[1].bet_amount
            /\ bankroll' = bankroll + profit']_vars

\* C36 witness: a run has lost its whole bankroll and has not gone below zero
C36_Witness ==
    /\ bankroll = 0
    /\ spins_completed > 0
    /\ loss_count > 0

\* the outcomes among the first n of history that are in the set numbers
RECURSIVE OutcomesIn(_, _)
OutcomesIn(n, numbers) ==
    IF n = 0 THEN 0
    ELSE OutcomesIn(n - 1, numbers) + (IF history[n] \in numbers THEN 1 ELSE 0)

\* C37: in every reachable state of a run, win count + loss count = spins
\* completed = length of the wheel's history = red count + black count +
\* zero count, and each running colour count is the number of outcomes of
\* that colour in history.  (The state a range error leaves behind is not a
\* state of the run.)
C37_CountsAgree ==
    pc # "raised" =>
        /\ win_count + loss_count = spins_completed
        /\ spins_completed = Len(history)
        /\ Len(history) = red_count + black_count + zero_count
        /\ spin_index = spins_completed \/ stop_reason \in {"min_bet", "max_bet"}
        /\ red_count = OutcomesIn(Len(history), RED_NUMBERS)
        /\ black_count = OutcomesIn(Len(history), BLACK_NUMBERS)
        /\ zero_count = OutcomesIn(Len(history), NUMBERS \ (RED_NUMBERS \cup BLACK_NUMBERS))

\* C37 witness: a run with a zero, a red and a black outcome, wins and losses
C37_Witness ==
    /\ pc = "loop"
    /\ zero_count = 1
    /\ red_count >= 2
    /\ black_count >= 2
    /\ win_count >= 1
    /\ loss_count >= 1
    /\ Len(history) = red_count + black_count + 1

\* the configured constants of run_simulation
ConfiguredConstants ==
    /\ STARTING_BANKROLL = 1000000
    /\ STARTING_BET = 1200
    /\ SPINS_PER_SIMULATION = 120
    /\ MIN_BET = 200
    /\ MAX_BET = 8000

\* C38: with the configured starting bet (1.20), minimum (0.20) and maximum
\* (8.00), the bet magnitude in every reachable state of a run is a grid
\* point of the adjustment table with minimum <= bet <= maximum, every bet
\* placed is strictly between the minimum and the maximum, and no reachable
\* state makes get_bet_increase or get_bet_decrease raise a range error.
C38_BetOnGridInsideLimits ==
    /\ [](ConfiguredConstants =>
            /\ current_bet_amount \in GridPoints
            /\ MIN_BET <= current_bet_amount
            /\ current_bet_amount <= MAX_BET
            /\ pc # "raised"
            /\ run_error = ""
            /\ (pc = "loop" /\ stop_check = "") =>
                   /\ MIN_BET < bets[1].bet_amount
                   /\ bets[1].bet_amount < MAX_BET
                   /\ bets[1].bet_amount \in GridPoints
                   /\ get_bet_increase(current_bet_amount).error = ""
                   /\ get_bet_decrease(current_bet_amount).error = "")
    /\ [][(ConfiguredConstants /\ RoundPlayed) =>
            /\ MIN_BET < bets[1].bet_amount
            /\ bets[1].bet_amount < MAX_BET
            /\ new_bet_amount' \in GridPoints]_vars

\* C38 witness: fourteen losses in a row from 1.20 have brought the bet to
\* the maximum, where the run stopped
C38_Witness ==
    /\ ConfiguredConstants
    /\ stop_reason = "max_bet"
    /\ current_bet_amount = MAX_BET
    /\ loss_count = 14
    /\ win_count = 0

\* C39: at the start of every spin of a run the stake of the bet placed on
\* the wheel equals the tracked current bet magnitude (the value of the
\* bankruptcy check and of the next increase or decrease), also on the spin
\* after an early-floor switch or a dominance switch, and the bet's target
\* is red or black, never green.
C39_StakeIsCurrentBet ==
    /\ [](pc = "loop" =>
            /\ Len(bets) = 1
            /\ bets[1].bet_amount = current_bet_amount
            /\ bets[1].bet_type \in {"red", "black"}
            /\ bets[1].bet_numbers = {})
    /\ [][RoundPlayed =>
            /\ bets[1].bet_amount = current_bet_amount
            /\ bets[1].bet_type \in {"red", "black"}
            /\ profit' \in {bets[1].bet_amount, 0 - bets[1].bet_amount,
                             (0 - bets[1].bet_amount) \div 2}
            /\ (pc' = "loop" /\ sim_switch_track' # sim_switch_track) =>
                   /\ bets'[1].bet_type \in {"red", "black"}
                   /\ bets'[1].bet_amount = current_bet_amount']_vars

\* C39 witness: no spin was won, so that the floor was never reached, a
\* dominance switch acted at the twelfth spin, the spin after it has been
\* played at the tracked magnitude, and the run goes on
C39_Witness ==
    /\ pc = "loop"
    /\ spins_completed = 13
    /\ win_count = 0
    /\ sim_switch_track # <<>>
    /\ bets[1].bet_amount = current_bet_amount
    /\ current_bet_amount > STARTING_BET

\* C27 as stated: the outcome of the run's n-th spin is the element of the
\* run's list of random numbers at the cyclic index of the wheel (the spin
\* count modulo the length of the list), also for a list shorter than the
\* run.
C27_OutcomesFromRunSequence ==
    \A n \in 1..Len(history) :
        history[n] = run_numbers[(n % Len(run_numbers)) + 1]

\* C30 as stated: every stop reason a run can end in has a counter that
\* the run ending in it increments once, so after the runs the stop
\* counters sum to the number of runs.
C30_StopCountersSumToRuns ==
    pc = "done" =>
        bankruptcies + max_bet_reached + min_bet_reached + completed_all_spins
            = Len(results)

---------------------------------------------------------------------------
(* Claims about count_streaks, under SpecStreak *)

\* the positions where a maximal run of red starts
RunStarts(spins) ==
    {i \in 1..Len(spins) : spins[i] = "R" /\ (i = 1 \/ spins[i - 1] # "R")}

\* the last position of the maximal run that starts at i
RunEnd(spins, i) ==
    CHOOSE j \in i..Len(spins) :
        /\ \A x \in i..j : spins[x] = "R"
        /\ j = Len(spins) \/ spins[j + 1] # "R"

\* the sum of floor(r / k) over the maximal runs that start in S, r their length
RECURSIVE SumOfFloors(_, _, _)
SumOfFloors(S, spins, k) ==
    IF S = {} THEN 0
    ELSE LET i == CHOOSE x \in S : TRUE
         IN  ((RunEnd(spins, i) - i + 1) \div k) + SumOfFloors(S \ {i}, spins, k)

\* n reds in a row
Reds(n) == [i \in 1..n |-> "R"]

\* the sequence is two runs of k reds separated by one other outcome
TwoRunsOf(k) ==
    \E c \in SpinColors \ {"R"} : trial_spins = Reds(k) \o <<c>> \o Reds(k)

\* what the claim and its amendment share: every maximal run of r reds
\* contributes floor(r / k); a run of 2k yields 2, a run of k-1 yields 0, two
\* runs of k separated by one other outcome yield 2
CountsNonOverlapping ==
    /\ count = SumOfFloors(RunStarts(trial_spins), trial_spins, streak_length)
    /\ trial_spins = Reds(2 * streak_length) => count = 2
    /\ trial_spins = Reds(streak_length - 1) => count = 0
    /\ TwoRunsOf(streak_length) => count = 2

\* C22 as stated: count_streaks counts non-overlapping streaks: every maximal
\* run of r reds contributes floor(r / k) for streak length k; a run of 2k
\* yields 2, a run of k-1 yields 0, a run of k+1 yields 1, and two runs of k
\* separated by one other outcome yield 2.
C22_RunOfOneMoreYieldsOne ==
    count # -1 =>
        /\ CountsNonOverlapping
        /\ trial_spins = Reds(streak_length + 1) => count = 1

\* C22 as amended: the same, with the run of k+1 yielding 1 for k >= 2; for
\* k = 1 it is a run of 2k and yields 2.
C22_FloorOfEveryMaximalRun ==
    count # -1 =>
        /\ CountsNonOverlapping
        /\ (trial_spins = Reds(streak_length + 1) /\ streak_length >= 2) => count = 1
        /\ (trial_spins = Reds(streak_length + 1) /\ streak_length = 1) => count = 2

\* C22 witness: for streak length 2, two runs of 3 reds separated by a black
\* count 2
C22_Witness ==
    /\ streak_length = 2
    /\ trial_spins = <<"R", "R", "R", "B", "R", "R", "R">>
    /\ count = 2

---------------------------------------------------------------------------
(* Claims about the estimate of monte_carlo.py, under SpecEstimate *)

\* the step runs a trial and every counter moves by 1 exactly when the
\* trial's streak count is in its bucket
TrialClassified ==
    trial' = trial + 1 =>
        /\ at_least_one' - at_least_one = (IF streak_count' >= 1 THEN 1 ELSE 0)
        /\ at_least_two' - at_least_two = (IF streak_count' >= 2 THEN 1 ELSE 0)
        /\ at_least_three' - at_least_three = (IF streak_count' >= 3 THEN 1 ELSE 0)
        /\ exactly_one' - exactly_one = (IF streak_count' = 1 THEN 1 ELSE 0)
        /\ exactly_two' - exactly_two = (IF streak_count' = 2 THEN 1 ELSE 0)
        /\ exactly_three' - exactly_three = (IF streak_count' = 3 THEN 1 ELSE 0)
        /\ four_or_more' - four_or_more = (IF streak_count' >= 4 THEN 1 ELSE 0)
        /\ (trial' - at_least_one') - (trial - at_least_one)
               = (IF streak_count' = 0 THEN 1 ELSE 0)

\* the relations of the claim among the counts
CountRelations ==
    /\ at_least_one >= at_least_two
    /\ at_least_two >= at_least_three
    /\ at_least_three >= four_or_more
    /\ exactly_one = at_least_one - at_least_two
    /\ exactly_two = at_least_two - at_least_three
    /\ at_least_three = exactly_three + four_or_more
    /\ (trial - at_least_one) + at_least_one = trial

\* every reported value is the float (count / trials) * 100
ReportedFromCounts ==
    /\ estimate.at_least_one = percentage(at_least_one, num_simulations)
    /\ estimate.at_least_two = percentage(at_least_two, num_simulations)
    /\ estimate.at_least_three = percentage(at_least_three, num_simulations)
    /\ estimate.exactly_one = percentage(exactly_one, num_simulations)
    /\ estimate.exactly_two = percentage(exactly_two, num_simulations)
    /\ estimate.exactly_three = percentage(exactly_three, num_simulations)
    /\ estimate.four_or_more = percentage(four_or_more, num_simulations)
    /\ estimate.zero_streaks = percentage(num_simulations - at_least_one, num_simulations)

\* the order of the claim among the reported values
ReportedOrder ==
    /\ float_le(estimate.at_least_two, estimate.at_least_one)
    /\ float_le(estimate.at_least_three, estimate.at_least_two)
    /\ float_le(estimate.four_or_more, estimate.at_least_three)

\* the equalities of the claim among the reported values, in float arithmetic
ReportedEqualities ==
    /\ estimate.exactly_one = float_sub(estimate.at_least_one, estimate.at_least_two)
    /\ estimate.exactly_two = float_sub(estimate.at_least_two, estimate.at_least_three)
    /\ estimate.at_least_three = float_add(estimate.exactly_three, estimate.four_or_more)
    /\ float_add(estimate.zero_streaks, estimate.at_least_one) = float_of(100)

\* the limbs with leading zero limbs up to the length n
PadTo(limbs, n) == ZeroLimbs(n - Len(limbs)) \o limbs

\* a <= b + k for limb sequences and a natural number k below Limb
AtMostPlus(a, b, k) ==
    LET n == IF Len(a) > Len(b) THEN Len(a) ELSE Len(b)
    IN  LimbsAtMost(PadTo(a, n + 1), PlusLimbs(PadTo(b, n), PadTo(<<k>>, n), 0))

\* the float v is within two units in the last place of the exact 100 * c / n
\* (a unit in the last place of v is 2 * 2^v.e): |m * n - 100 * c / 2^v.e| <= 4 * n
NearExactPercentage(v, c, n) ==
    IF c = 0 THEN v = float_zero
    ELSE LET scaled == TimesSmall(v.m, n, 0)
             exact == Scaled([m |-> <<0, 0, 100 * c>>, e |-> 0], 0 - v.e)
         IN  /\ v.e < 0
             /\ AtMostPlus(scaled, exact, 4 * n)
             /\ AtMostPlus(exact, scaled, 4 * n)

\* every reported value is within two units in the last place of the exact
\* percentage of its count
ReportedNearExact ==
    /\ NearExactPercentage(estimate.at_least_one, at_least_one, num_simulations)
    /\ NearExactPercentage(estimate.at_least_two, at_least_two, num_simulations)
    /\ NearExactPercentage(estimate.at_least_three, at_least_three, num_simulations)
    /\ NearExactPercentage(estimate.exactly_one, exactly_one, num_simulations)
    /\ NearExactPercentage(estimate.exactly_two, exactly_two, num_simulations)
    /\ NearExactPercentage(estimate.exactly_three, exactly_three, num_simulations)
    /\ NearExactPercentage(estimate.four_or_more, four_or_more, num_simulations)
    /\ NearExactPercentage(estimate.zero_streaks, num_simulations - at_least_one,
                           num_simulations)

\* the number of trials is a power of two
PowerOfTwoTrials == \E k \in 0..LimbBits : num_simulations = 2 ^ k

\* C23 as stated: for any set of trials every trial is classified into the
\* buckets by its streak count, each reported value is count / trials * 100,
\* and among the reported values at_least_one >= at_least_two >=
\* at_least_three >= four_or_more, exactly_k = at_least_k - at_least_(k+1) for
\* k = 1, 2, at_least_three = exactly_three + four_or_more and zero_streaks +
\* at_least_one = 100.
C23_ReportedValuesAddUp ==
    /\ [][TrialClassified]_vars
    /\ [](mc_pc = "returned" =>
            /\ ReportedFromCounts
            /\ ReportedOrder
            /\ ReportedEqualities)

\* C23 as amended: every trial is classified into the buckets by its streak
\* count, and the relations hold among the counts.  For at least one trial
\* the estimate is returned, each reported value is the float (count /
\* trials) * 100, within two units in the last place of the exact percentage,
\* the order at_least_one >= at_least_two >= at_least_three >= four_or_more
\* holds among the reported values, and the equalities hold among them when
\* the number of trials is a power of two.  For no trial the divisions raise
\* and nothing is reported.
C23_CountsAddUp ==
    /\ [][TrialClassified]_vars
    /\ [][(mc_pc = "trials" /\ trial = num_simulations) =>
            mc_pc' = (IF num_simulations > 0 THEN "returned" ELSE "raised")]_vars
    /\ [](/\ CountRelations
          /\ mc_pc = "returned" =>
                /\ num_simulations > 0
                /\ ReportedFromCounts
                /\ ReportedNearExact
                /\ ReportedOrder
                /\ PowerOfTwoTrials => ReportedEqualities
          /\ mc_pc = "raised" => (num_simulations = 0 /\ estimate = NoEstimate))

\* C23 witness: three trials with 0, 1 and 4 streaks, reported as
\* 33.33333333333333 (zero streaks) and 66.66666666666666 (at least one),
\* whose float sum is not 100
C23_Witness ==
    /\ mc_pc = "returned"
    /\ num_simulations = 3
    /\ at_least_one = 2
    /\ exactly_one = 1
    /\ four_or_more = 1
    /\ estimate.zero_streaks = estimate.exactly_one
    /\ float_add(estimate.zero_streaks, estimate.at_least_one) # float_of(100)
    /\ float_le(float_add(estimate.zero_streaks, estimate.at_least_one), float_of(100))

---------------------------------------------------------------------------
(* Claims about the colour ratios of the emulator, under Spec *)

\* the value get_red_black_ratio() or get_black_red_ratio() returns for a
\* count in the numerator over a count in the denominator: no exception, the
\* infinite sentinel exactly for a denominator of 0, else the quotient of the
\* counts; the sentinel is >= SWITCH_RATIO
RatioDefined(ratio, numerator, denominator) ==
    /\ ratio.error = ""
    /\ ratio.inf <=> denominator = 0
    /\ ratio.inf => at_least_switch_ratio(ratio)
    /\ ~ratio.inf => (ratio.num = numerator /\ ratio.den = denominator)
    /\ at_least_switch_ratio(ratio) \in BOOLEAN

---------------------------------------------------------------------------
(* Claims about emulators in random mode, under SpecSeed *)

\* the outcomes of n spins of an emulator that alone uses a generator
\* seeded with seed
RECURSIVE OutcomesOfSeed(_, _)
OutcomesOfSeed(seed, n) ==
    IF n = 0 THEN <<>>
    ELSE Append(OutcomesOfSeed(seed, n - 1),
                random_choice([seed |-> seed, draws |-> n - 1]))

\* C28 as stated: the outcomes an emulator constructed with seed s has
\* returned are determined by s and the number of its own spins, whatever
\* other emulators were constructed or spun in between.
C28_OutcomesDeterminedByOwnSeed ==
    \A e \in Emulators :
        (emulators[e].made /\ emulators[e].seeded) =>
            emulators[e].history =
                OutcomesOfSeed(emulators[e].seed, Len(emulators[e].history))


---------------------------------------------------------------------------
(* Claims about get_number_of_streak_color, under SpecColorStreak *)

\* the outcomes of the colour named name
NumbersOfColor(name) ==
    IF name = "red" THEN RED_NUMBERS
    ELSE IF name = "black" THEN BLACK_NUMBERS
    ELSE {}

\* n is the length of the run of outcomes of the colour at the end of h:
\* the last n outcomes are of the colour and the one before them, if any,
\* is a zero or of the opposite colour
IsTrailingRun(h, name, n) ==
    /\ n \in 0..Len(h)
    /\ \A i \in (Len(h) - n + 1)..Len(h) : h[i] \in NumbersOfColor(name)
    /\ n < Len(h) => h[Len(h) - n] \notin NumbersOfColor(name)

\* C29 as stated: called with the colour given as 'red' or 'black', the
\* function returns the length of the run of outcomes of that colour at the
\* end of history (0 for an empty history or a last outcome that is zero or
\* of the opposite colour).
C29_StreakOfColourName ==
    (streak_number # -1 /\ streak_color.type = "str") =>
        IsTrailingRun(history, streak_color.value, streak_number)


---------------------------------------------------------------------------
(* Claims about the dominance switch applied twice, under SpecSwitch *)

\* C32 as stated: the dominance switch is idempotent: applied twice in a
\* row to the same wheel counts it gives the target colour it gives applied
\* once, for all counts of reds and blacks, a zero count on either or both
\* sides included.
C32_SwitchIdempotent ==
    Len(switch_bets) = 3 => switch_bets[3].bet_type = switch_bets[2].bet_type

=============================================================================
